---------------------------- MODULE Spec2Model ----------------------------
(***************************************************************************)
(* Layout and composition engine of jsPDF++ (generatePDF and its helpers). *)
(*                                                                         *)
(* Lengths are exact rationals of the source, scaled to integers:          *)
(*   1 mm = MM = 72000 units.                                              *)
(* Font sizes are kept in tenths of a point (18pt = 180, 8.5pt = 85) and   *)
(* line-height multipliers in tenths (1.5 = 15), pixel spacings as the     *)
(* integers of the theme files.  With that scale                           *)
(*   px(v)            = v * 25.4/96 mm      = v * 19050 units              *)
(*   pt(f)            = f * 25.4/72 mm      = f10 * 2540 units             *)
(*   lineHeight(f,lh) = f * lh * 25.4/72 mm = f10 * lh10 * 254 units       *)
(* and every coordinate the engine computes is an integer.                 *)
(***************************************************************************)
EXTENDS Integers, Sequences, FiniteSets, TLC

\* ------------------------------------------------------------------ bounds
\* blocks (header, summary, title, bullet, job, role) rendered per document
MaxBlocks == 5
\* most lines splitTextToSize returns for one summary or bullet text
MaxLines == 60

\* --------------------------------------------------------------- constants
\* unit: "mm" of the jsPDF document; one millimetre in model units
MM == 72000
\* PX_TO_MM = 25.4 / 96, in model units per pixel
PX_TO_MM == 19050
\* PT_TO_MM = 25.4 / 72, in model units per tenth of a point
PT_TO_MM == 2540
\* the value of arithmetic on an undefined theme key (undefined * k = NaN)
NaN == -1
\* jsPDF's font size before the first setFontSize, in tenths of a point
DefaultFontSize == 160

pageWidth == 210 * MM
pageHeight == 297 * MM

\* an absent optional colour (theme.colors.bulletColor, prefixGreen, ...)
Undef == <<>>

\* ---------------------------------------------------- NaN-aware arithmetic
Add(a, b) == IF a = NaN \/ b = NaN THEN NaN ELSE a + b
Sub(a, b) == IF a = NaN \/ b = NaN THEN NaN ELSE a - b
Mul(a, k) == IF a = NaN THEN NaN ELSE a * k
Half(a) == IF a = NaN THEN NaN ELSE a \div 2
\* a > b as JavaScript evaluates it: false when either side is NaN
Gt(a, b) == a # NaN /\ b # NaN /\ a > b

\* ------------------------------------------------------------ UnitConverter
px(theme, value) == Mul(value, PX_TO_MM)

\* faulty variant of pt: points converted with the pixel factor
pt_asPixels(theme, value) == (Mul(value, PX_TO_MM)) \div 10

pt(theme, value) == Mul(value, PT_TO_MM)

\* fontSize in tenths of a point, lh in tenths: fontSize * lh * PT_TO_MM
lineHeight(theme, fontSize, lh) == (fontSize * lh * PT_TO_MM) \div 10

\* a || b on optional colours
OrElse(a, b) == IF a # Undef THEN a ELSE b

\* ------------------------------------------------------------------ themes
NoImages ==
  [defined |-> FALSE, headerBarHeight |-> 0, sectionBarWidth |-> 0,
   sectionBarHeight |-> 0, sectionBarOffset |-> 0]

CreativeImages ==
  [defined |-> TRUE, headerBarHeight |-> 1 * MM, sectionBarWidth |-> (5 * MM) \div 4,
   sectionBarHeight |-> (7 * MM) \div 2, sectionBarOffset |-> 0 - (5 * MM) \div 2]

NoPrefixes(b) ==
  [h1 |-> "", subHeader |-> "", h2 |-> "", h3 |-> "", jobMeta |-> "", bullet |-> b]

StdSpacing(smb) ==
  [headerBottomMargin |-> 12, h1MarginBottom |-> 4, subHeaderMarginBottom |-> 12,
   h2MarginTop |-> 12, h2MarginBottom |-> 6, h3MarginTop |-> 8,
   jobHeaderMarginBottom |-> 4, ulMarginTop |-> 4, ulMarginBottom |-> 10,
   liMarginBottom |-> 3, sectionMarginBottom |-> smb]

ThemeModern ==
  [name |-> "Modern Professional", margin |-> 15 * MM,
   spacing |-> StdSpacing(NaN),
   fonts |-> [h1 |-> 180, subHeader |-> 75, h2 |-> 100, h3 |-> 90, li |-> 85, body |-> 90],
   lineHeights |-> [li |-> 15, body |-> 14],
   colors |-> [bg |-> <<255, 255, 255>>, name |-> <<31, 41, 55>>, role |-> <<100, 116, 139>>,
               heading |-> <<37, 99, 235>>, text |-> <<71, 85, 105>>,
               bulletColor |-> Undef, prefixGreen |-> Undef, prefixGray |-> Undef],
   prefixes |-> NoPrefixes("*"),
   images |-> NoImages]

ThemeClassic ==
  [name |-> "Classic Minimalist", margin |-> 15 * MM,
   spacing |-> StdSpacing(NaN),
   fonts |-> [h1 |-> 180, subHeader |-> 75, h2 |-> 90, h3 |-> 90, li |-> 85, body |-> 90],
   lineHeights |-> [li |-> 15, body |-> 14],
   colors |-> [bg |-> <<255, 255, 255>>, name |-> <<44, 62, 80>>, role |-> <<84, 110, 122>>,
               heading |-> <<44, 62, 80>>, text |-> <<51, 51, 51>>,
               bulletColor |-> Undef, prefixGreen |-> Undef, prefixGray |-> Undef],
   prefixes |-> NoPrefixes("+"),
   images |-> NoImages]

ThemeCompact ==
  [name |-> "Compact Executive", margin |-> 12 * MM,
   spacing |-> [headerBottomMargin |-> 10, h1MarginBottom |-> 3, subHeaderMarginBottom |-> 10,
                h2MarginTop |-> 10, h2MarginBottom |-> 5, h3MarginTop |-> 6,
                jobHeaderMarginBottom |-> 3, ulMarginTop |-> 3, ulMarginBottom |-> 8,
                liMarginBottom |-> 2, sectionMarginBottom |-> NaN],
   fonts |-> [h1 |-> 140, subHeader |-> 70, h2 |-> 90, h3 |-> 85, li |-> 80, body |-> 80],
   lineHeights |-> [li |-> 13, body |-> 13],
   colors |-> [bg |-> <<255, 255, 255>>, name |-> <<0, 0, 0>>, role |-> <<100, 100, 100>>,
               heading |-> <<0, 0, 0>>, text |-> <<0, 0, 0>>,
               bulletColor |-> <<37, 99, 235>>, prefixGreen |-> Undef, prefixGray |-> Undef],
   prefixes |-> NoPrefixes(">"),
   images |-> NoImages]

ThemeTerminal ==
  [name |-> "Terminal/Hacker", margin |-> 15 * MM,
   spacing |-> StdSpacing(NaN),
   fonts |-> [h1 |-> 160, subHeader |-> 70, h2 |-> 90, h3 |-> 85, li |-> 85, body |-> 90],
   lineHeights |-> [li |-> 15, body |-> 14],
   colors |-> [bg |-> <<13, 17, 23>>, name |-> <<88, 166, 255>>, role |-> <<139, 148, 158>>,
               heading |-> <<126, 231, 135>>, text |-> <<201, 209, 217>>,
               bulletColor |-> Undef, prefixGreen |-> <<126, 231, 135>>,
               prefixGray |-> <<139, 148, 158>>],
   prefixes |-> [h1 |-> "$ whoami > ", subHeader |-> "# ", h2 |-> "[>] ", h3 |-> "|-- ",
                 jobMeta |-> "// ", bullet |-> "> "],
   images |-> NoImages]

ThemeCreative ==
  [name |-> "Creative Designer", margin |-> 15 * MM,
   spacing |-> StdSpacing(16),
   fonts |-> [h1 |-> 220, subHeader |-> 80, h2 |-> 100, h3 |-> 90, li |-> 85, body |-> 90],
   lineHeights |-> [li |-> 15, body |-> 14],
   colors |-> [bg |-> <<255, 255, 255>>, name |-> <<139, 92, 246>>, role |-> <<107, 114, 128>>,
               heading |-> <<139, 92, 246>>, text |-> <<55, 65, 81>>,
               bulletColor |-> <<139, 92, 246>>, prefixGreen |-> Undef, prefixGray |-> Undef],
   prefixes |-> NoPrefixes("x"),
   images |-> CreativeImages]

ThemeCreative2 ==
  [name |-> "Creative Designer 2", margin |-> 15 * MM,
   spacing |-> StdSpacing(16),
   fonts |-> [h1 |-> 220, subHeader |-> 80, h2 |-> 100, h3 |-> 90, li |-> 85, body |-> 90],
   lineHeights |-> [li |-> 15, body |-> 14],
   colors |-> [bg |-> <<255, 255, 255>>, name |-> <<13, 148, 136>>, role |-> <<71, 85, 105>>,
               heading |-> <<13, 148, 136>>, text |-> <<51, 65, 85>>,
               bulletColor |-> <<13, 148, 136>>, prefixGreen |-> Undef, prefixGray |-> Undef],
   prefixes |-> NoPrefixes(">>"),
   images |-> CreativeImages]

\* the six shipped themes
ShippedThemes ==
  {ThemeModern, ThemeClassic, ThemeCompact, ThemeTerminal, ThemeCreative, ThemeCreative2}

\* Font family mapping for themes (based on theme.name); absent names get 'Inter'
themeFonts(name) ==
  CASE name = "Modern Professional" -> "Inter"
    [] name = "Classic Minimalist" -> "Inter"
    [] name = "Compact Executive" -> "JetBrainsMono"
    [] name = "Terminal/Hacker" -> "JetBrainsMono"
    [] name = "Creative Designer" -> "Inter"
    [] name = "Creative Designer 2" -> "Inter"
    [] OTHER -> ""

\* faulty variant of FontFamily: no default family for names themeFonts lacks
FontFamily_noDefault(th) == themeFonts(th.name)

FontFamily(th) == IF themeFonts(th.name) # "" THEN themeFonts(th.name) ELSE "Inter"


\* ------------------------------------------------- backend handle (jsPDF)
\* A render state s carries the cursor y, the page index, the paint state the
\* backend retains (font size, text colour, fill colour) and the calls made
\* during the current block, in order (out).
Emit(s, p) == [s EXCEPT !.out = Append(@, p)]

setFontSize(s, v) == [Emit(s, [op |-> "setFontSize", size |-> v]) EXCEPT !.size = v]

setFont(s, family, style) == Emit(s, [op |-> "setFont", family |-> family, style |-> style])

setTextColor(s, c) == [Emit(s, [op |-> "setTextColor", color |-> c]) EXCEPT !.color = c]

setFillColor(s, c) == [Emit(s, [op |-> "setFillColor", color |-> c]) EXCEPT !.fill = c]

setDrawColor(s, c) == Emit(s, [op |-> "setDrawColor", color |-> c])

setLineWidth(s, w) == Emit(s, [op |-> "setLineWidth", w |-> w])

\* doc.text(t, x, y): placed with the font size and text colour in effect.
\* role names the call site: "ghost" for the '// Ghost markdown' tokens,
\* "prefix" for theme prefixes, "glyph" for the bullet character, and the
\* element kind for visible content; n is the number of lines placed.
textAs(s, role, t, n, x, yy, align) ==
  Emit(s, [op |-> "text", role |-> role, text |-> t, lines |-> n, x |-> x, y |-> yy,
           align |-> align, size |-> s.size, color |-> s.color, page |-> s.page])

text(s, role, t, x, yy) == textAs(s, role, t, 1, x, yy, "left")

rect(s, x, yy, w, h) ==
  Emit(s, [op |-> "rect", x |-> x, y |-> yy, w |-> w, h |-> h, style |-> "F",
           fill |-> s.fill, page |-> s.page])

line(s, x1, y1, x2, y2) ==
  Emit(s, [op |-> "line", x |-> x1, y |-> y1, x2 |-> x2, y2 |-> y2, page |-> s.page])

triangle(s, x1, y1, x2, y2, x3, y3) ==
  Emit(s, [op |-> "triangle", x |-> x1, y |-> y1, x2 |-> x2, y2 |-> y2,
           x3 |-> x3, y3 |-> y3, style |-> "F", fill |-> s.fill, page |-> s.page])

addImage(s, img, x, yy, w, h) ==
  Emit(s, [op |-> "addImage", image |-> img, x |-> x, y |-> yy, w |-> w, h |-> h,
           page |-> s.page])

addPage(s) == [Emit(s, [op |-> "addPage"]) EXCEPT !.page = @ + 1]

\* doc.getTextWidth(t) at the font size in effect: the backend's measure,
\* taken as 0.6 em per character (size in tenths of a point)
getTextWidth(s, t) == Len(t) * s.size * ((PT_TO_MM * 6) \div 10)

\* String.prototype.toUpperCase on the texts of the documents considered
toUpperCase(t) ==
  CASE t = "Jane Doe" -> "JANE DOE"
    [] t = "Skills" -> "SKILLS"
    [] t = "Experience" -> "EXPERIENCE"
    [] OTHER -> t

\* faulty variant of advance: the cursor stays where it is
advance_none(s, d) == s

advance(s, d) == [s EXCEPT !.y = Add(@, d)]

\* ---------------------------------------------------------- PaginationEngine
\* faulty variant of addNewPage: the new page is left without its background
addNewPage_bare(s, th) == [addPage(s) EXCEPT !.y = th.margin]

\* faulty variant of addNewPage: the cursor is not reset to the top margin
addNewPage_noReset(s, th) ==
  rect(setFillColor(addPage(s), th.colors.bg), 0, 0, pageWidth, pageHeight)

\* faulty variant of addNewPage: the cursor is reset to the top edge of the page
addNewPage_toTop(s, th) ==
  [rect(setFillColor(addPage(s), th.colors.bg), 0, 0, pageWidth, pageHeight) EXCEPT !.y = 0]

\* Helper: Add new page with background
addNewPage(s, th) ==
  LET s1 == addPage(s)
      s2 == setFillColor(s1, th.colors.bg)
      s3 == rect(s2, 0, 0, pageWidth, pageHeight)
  IN  [s3 EXCEPT !.y = th.margin]

\* faulty variant of Overflows: the comparison is >= instead of >
Overflows_ge(s, th, requiredSpace) ==
  LET v == Add(s.y, requiredSpace)
  IN  v # NaN /\ v >= pageHeight - th.margin

\* the condition of checkPageOverflow
Overflows(s, th, requiredSpace) == Gt(Add(s.y, requiredSpace), pageHeight - th.margin)

\* Helper: Check if we need a new page.  The call is logged in out (op
\* "checkPageOverflow", with the cursor it saw and what it returned) ahead of
\* the primitives it emits.
checkPageOverflow(s, th, requiredSpace) ==
  LET s0 == Emit(s, [op |-> "checkPageOverflow", required |-> requiredSpace,
                     y |-> s.y, ret |-> Overflows(s, th, requiredSpace)])
  IN  IF Overflows(s, th, requiredSpace) THEN addNewPage(s0, th) ELSE s0

\* ------------------------------------------------------------ SectionComposer
\* theme.colors.prefixGreen || theme.colors.heading
prefixGreenColor(th) == OrElse(th.colors.prefixGreen, th.colors.heading)

\* theme.colors.prefixGray || theme.colors.role
prefixGrayColor(th) == OrElse(th.colors.prefixGray, th.colors.role)

\* theme.colors.bulletColor || theme.colors.prefixGreen || theme.colors.text
bulletColorOf(th) ==
  OrElse(th.colors.bulletColor, OrElse(th.colors.prefixGreen, th.colors.text))

\* faulty variant of ghostTag: the token is written one millimetre above the baseline
ghostTag_offBaseline(s, th, token) ==
  text(setTextColor(s, th.colors.bg), "ghost", token, th.margin, Sub(s.y, MM))

\* faulty variant of ghostTag: the text colour is not switched to the background
ghostTag_noColor(s, th, token) == text(s, "ghost", token, th.margin, s.y)

\* Ghost markdown: doc.setTextColor(...bg); doc.text(token, margin, y)
ghostTag(s, th, token) ==
  text(setTextColor(s, th.colors.bg), "ghost", token, th.margin, s.y)

\* header branch, name part: ghost '# ', optional terminal prefix, the name
renderHeaderName(s, th, name) ==
  LET margin == th.margin
      y0 == s.y
      a1 == setFontSize(s, th.fonts.h1)
      a2 == setFont(a1, FontFamily(th), "bold")
      a4 == ghostTag(a2, th, "# ")
      hasPrefix == th.prefixes.h1 # ""
      b1 == setFontSize(a4, 100)
      b2 == setTextColor(b1, prefixGreenColor(th))
      b3 == text(b2, "prefix", th.prefixes.h1, margin, y0)
      prefixWidth == getTextWidth(b3, th.prefixes.h1)
      b4 == setFontSize(b3, th.fonts.h1)
      a5 == IF hasPrefix THEN b4 ELSE a4
      nameX == IF hasPrefix THEN margin + prefixWidth ELSE margin
      a6 == setTextColor(a5, th.colors.name)
      nameText == toUpperCase(name)
      centerX == (pageWidth - getTextWidth(a6, nameText)) \div 2
      a7 == IF th.name = "Classic Minimalist"
              THEN text(a6, "name", nameText, centerX, y0)
              ELSE text(a6, "name", name, nameX, y0)
  IN  advance(advance(a7, pt(th, th.fonts.h1)), px(th, th.spacing.h1MarginBottom))

\* header branch, contact part (section.content.contact is truthy)
renderContact(s, th, headerBarImage, contact) ==
  LET margin == th.margin
      y0 == s.y
      a1 == setFontSize(s, th.fonts.subHeader)
      a2 == setFont(a1, FontFamily(th), "normal")
      a4 == ghostTag(a2, th, "**Contact:** ")
      hasPrefix == th.prefixes.subHeader # ""
      b1 == setTextColor(a4, prefixGreenColor(th))
      b2 == text(b1, "prefix", th.prefixes.subHeader, margin, y0)
      a5 == IF hasPrefix THEN b2 ELSE a4
      contactX == IF hasPrefix THEN margin + getTextWidth(b2, th.prefixes.subHeader)
                               ELSE margin
      a6 == setTextColor(a5, th.colors.role)
      a7 == text(a6, "contact", contact, contactX, y0)
      a8 == advance(a7, pt(th, th.fonts.subHeader))
      barHeight == th.images.headerBarHeight
      c1 == addImage(a8, "headerBar", margin, a8.y, pageWidth - 2 * margin, barHeight)
      c2 == advance(c1, barHeight + 2 * MM)
      a9 == IF headerBarImage /\ th.images.defined THEN c2 ELSE a8
  IN  advance(a9, px(th, th.spacing.subHeaderMarginBottom))

\* header branch, the separators of the Classic and Compact themes
renderHeaderRules(s, th) ==
  LET margin == th.margin
      a1 == setDrawColor(s, <<0, 0, 0>>)
      a2 == setLineWidth(a1, (3 * MM) \div 2)
      a3 == line(a2, margin, a2.y, pageWidth - margin, a2.y)
      a4 == IF th.name = "Classic Minimalist" THEN advance(a3, 4 * MM) ELSE s
      b1 == setDrawColor(a4, <<0, 0, 0>>)
      b2 == setLineWidth(b1, MM \div 2)
      b3 == line(b2, margin, b2.y, pageWidth - margin, b2.y)
  IN  IF th.name = "Compact Executive" THEN advance(b3, 6 * MM) ELSE a4

\* section.type === 'header'
renderHeader(s, th, headerBarImage, content) ==
  LET a1 == renderHeaderName(s, th, content.name)
      a2 == IF content.contact # ""
              THEN renderContact(a1, th, headerBarImage, content.contact)
              ELSE a1
  IN  renderHeaderRules(a2, th)

\* section.type === 'summary'; content.lines is what splitTextToSize returns
renderSummary(s, th, content) ==
  LET a0 == checkPageOverflow(s, th, 30 * MM)
      a1 == setFontSize(a0, th.fonts.body)
      a2 == setFont(a1, FontFamily(th), "normal")
      a3 == setTextColor(a2, th.colors.text)
      a4 == textAs(a3, "summary", content.text, content.lines, th.margin, a3.y, "left")
      a5 == advance(a4, content.lines * lineHeight(th, th.fonts.body, th.lineHeights.body))
  IN  advance(a5, px(th, th.spacing.h2MarginTop))

\* Helper: Draw full-width grey bar with left border for Compact theme
drawCompactSectionBox(s, t, x, yy, th) ==
  LET margin == th.margin
      fontSize == pt(th, th.fonts.h2)
      textHeight == (fontSize * 7) \div 10
      padding == 1 * MM
      barY == Sub(Sub(yy, textHeight), padding)
      barHeight == textHeight + padding * 2
      a1 == setFillColor(s, <<230, 231, 235>>)
      a2 == rect(a1, margin, barY, pageWidth - 2 * margin, barHeight)
      a3 == setDrawColor(a2, <<0, 0, 0>>)
      a4 == setLineWidth(a3, MM \div 2)
      a5 == line(a4, margin, barY, margin, Add(barY, barHeight))
  IN  IF th.name = "Compact Executive" THEN a5 ELSE s

\* faulty variant of drawSectionBar: a filled box stands in for a missing image
drawSectionBar_placeholder(s, th, sectionBarImage) ==
  LET barX == th.margin + th.images.sectionBarOffset
      barHeight == th.images.sectionBarHeight
      barY == Sub(s.y, barHeight)
  IN  IF ~th.images.defined
        THEN s
        ELSE IF sectionBarImage
          THEN addImage(s, "sectionBar", barX, barY, th.images.sectionBarWidth, barHeight)
          ELSE rect(setFillColor(s, th.colors.text), barX, barY,
                    th.images.sectionBarWidth, barHeight)

\* Creative theme section bar PNG
drawSectionBar(s, th, sectionBarImage) ==
  LET barX == th.margin + th.images.sectionBarOffset
      barHeight == th.images.sectionBarHeight
      fontSize == pt(th, th.fonts.h2)
      capHeight == (fontSize * 7) \div 10
      capCenter == Sub(s.y, capHeight \div 2)
      barY == Sub(capCenter, barHeight \div 2)
  IN  IF sectionBarImage /\ th.images.defined
        THEN addImage(s, "sectionBar", barX, barY, th.images.sectionBarWidth, barHeight)
        ELSE s

\* prefix, Compact box and the upper-cased title: common to both title sites
renderTitleText(s, th, title) ==
  LET margin == th.margin
      y0 == s.y
      hasPrefix == th.prefixes.h2 # ""
      b1 == setTextColor(s, prefixGreenColor(th))
      b2 == text(b1, "prefix", th.prefixes.h2, margin, y0)
      a1 == IF hasPrefix THEN b2 ELSE s
      sectionX == IF hasPrefix THEN margin + getTextWidth(b2, th.prefixes.h2) ELSE margin
      sectionText == toUpperCase(title)
      a2 == drawCompactSectionBox(a1, sectionText, sectionX, y0, th)
      textX == IF th.name = "Compact Executive" THEN sectionX + 2 * MM ELSE sectionX
      textColor == IF th.name = "Compact Executive" THEN <<37, 99, 235>>
                                                     ELSE th.colors.heading
      a3 == setTextColor(a2, textColor)
      a4 == text(a3, "title", sectionText, textX, y0)
  IN  advance(advance(a4, pt(th, th.fonts.h2)), px(th, th.spacing.h2MarginBottom))

\* section.type === 'section', up to the bullets loop
renderSectionTitle(s, th, sectionBarImage, title) ==
  LET a0 == checkPageOverflow(s, th, 30 * MM)
      a1 == advance(a0, px(th, th.spacing.h2MarginTop))
      a2 == drawSectionBar(a1, th, sectionBarImage)
      a3 == setFontSize(a2, th.fonts.h2)
      a4 == setFont(a3, FontFamily(th), "bold")
      a6 == ghostTag(a4, th, "## ")
  IN  renderTitleText(a6, th, title)

\* section.type === 'experience', up to the jobs loop: the ghost tag is
\* written before setFontSize
renderExperienceTitle(s, th, sectionBarImage, title) ==
  LET a0 == checkPageOverflow(s, th, 30 * MM)
      a1 == advance(a0, px(th, th.spacing.h2MarginTop))
      a2 == drawSectionBar(a1, th, sectionBarImage)
      a4 == ghostTag(a2, th, "## ")
      a5 == setFontSize(a4, th.fonts.h2)
      a6 == setFont(a5, FontFamily(th), "bold")
  IN  renderTitleText(a6, th, title)

\* ---------------------------------------------------------- VectorBulletDrawer
\* faulty variant of drawPetal: both triangles drawn on the same side
drawPetal_sameHalf(s, p0, p1, p2, p3) ==
  triangle(triangle(s, p0[1], p0[2], p1[1], p1[2], p2[1], p2[2]),
           p0[1], p0[2], p1[1], p1[2], p2[1], p2[2])

\* one petal drawn as two triangles sharing petal[0] and petal[2]
drawPetal(s, p0, p1, p2, p3) ==
  triangle(triangle(s, p0[1], p0[2], p1[1], p1[2], p2[1], p2[2]),
           p0[1], p0[2], p3[1], p3[2], p2[1], p2[2])

\* 4-pointed diamond: top, right, bottom and left petals; k = size*0.3
drawDiamond(s, cx, cy, size) ==
  LET k == (size * 3) \div 10
      up == Sub(cy, size)
      down == Add(cy, size)
      upk == Sub(cy, k)
      downk == Add(cy, k)
      t1 == drawPetal(s, <<cx, up>>, <<cx - k, upk>>, <<cx, cy>>, <<cx + k, upk>>)
      t2 == drawPetal(t1, <<cx + size, cy>>, <<cx + k, upk>>, <<cx, cy>>, <<cx + k, downk>>)
      t3 == drawPetal(t2, <<cx, down>>, <<cx + k, downk>>, <<cx, cy>>, <<cx - k, downk>>)
  IN  drawPetal(t3, <<cx - size, cy>>, <<cx - k, downk>>, <<cx, cy>>, <<cx - k, upk>>)

\* filled triangle pointing right
drawArrow(s, margin, yy) ==
  triangle(s, margin + 5 * MM, Sub(yy, (3 * MM) \div 2), margin + 5 * MM, Sub(yy, MM \div 2),
           margin + (13 * MM) \div 2, Sub(yy, MM))

\* faulty variant of drawBulletShape: the arrow is followed by the glyph
drawBulletShape_arrowAndGlyph(s, th) ==
  LET margin == th.margin
      a1 == setFillColor(s, bulletColorOf(th))
      b1 == setTextColor(s, bulletColorOf(th))
  IN  IF th.name = "Creative Designer"
        THEN drawDiamond(a1, margin + 6 * MM, Sub(s.y, MM), (9 * MM) \div 10)
      ELSE IF th.name = "Creative Designer 2"
        THEN text(setTextColor(drawArrow(s, margin, s.y), bulletColorOf(th)), "glyph",
                  th.prefixes.bullet \o " ", margin + 5 * MM, s.y)
      ELSE text(b1, "glyph", th.prefixes.bullet \o " ", margin + 5 * MM, s.y)

\* the bullet shape of the theme: diamond, arrow or the glyph of the theme
drawBulletShape(s, th) ==
  LET margin == th.margin
      a1 == setFillColor(s, bulletColorOf(th))
      b1 == setTextColor(s, bulletColorOf(th))
  IN  IF th.name = "Creative Designer"
        THEN drawDiamond(a1, margin + 6 * MM, Sub(s.y, MM), (9 * MM) \div 10)
      ELSE IF th.name = "Creative Designer 2"
        THEN drawArrow(s, margin, s.y)
      ELSE text(b1, "glyph", th.prefixes.bullet \o " ", margin + 5 * MM, s.y)

\* a bullet after its ghost tag: shape or glyph, then the text;
\* bullet.lines is what splitTextToSize returns
renderBulletText(s, th, bullet) ==
  LET margin == th.margin
      a3 == setTextColor(s, bulletColorOf(th))
      a4 == setFillColor(a3, bulletColorOf(th))
      a5 == drawBulletShape(a4, th)
      a6 == setFont(a5, FontFamily(th), "normal")
      a7 == setTextColor(a6, th.colors.text)
      a8 == textAs(a7, "bullet", bullet.text, bullet.lines, margin + 10 * MM, a7.y, "left")
      a9 == advance(a8, bullet.lines * lineHeight(th, th.fonts.li, th.lineHeights.li))
  IN  advance(a9, px(th, th.spacing.liMarginBottom))

\* faulty variant of renderBullet: the space check runs after the ghost tag
renderBullet_lateCheck(s, th, bullet) ==
  renderBulletText(checkPageOverflow(ghostTag(s, th, "- "), th, 15 * MM), th, bullet)

\* one iteration of a bullets loop (section.content.bullets and role.bullets
\* run the same statements): space check, ghost tag, bullet
renderBullet(s, th, bullet) ==
  renderBulletText(ghostTag(checkPageOverflow(s, th, 15 * MM), th, "- "), th, bullet)

\* one iteration of the jobs loop, up to the roles loop
renderJobHeader(s, th, company) ==
  LET margin == th.margin
      a0 == checkPageOverflow(s, th, 40 * MM)
      a1 == advance(a0, px(th, th.spacing.h3MarginTop))
      y0 == a1.y
      a2 == setFontSize(a1, th.fonts.h3)
      a3 == setFont(a2, FontFamily(th), "bold")
      a5 == ghostTag(a3, th, "### ")
      hasPrefix == th.prefixes.h3 # ""
      b1 == setTextColor(a5, prefixGrayColor(th))
      b2 == text(b1, "prefix", th.prefixes.h3, margin, y0)
      a6 == IF hasPrefix THEN b2 ELSE a5
      companyX == IF hasPrefix THEN margin + getTextWidth(b2, th.prefixes.h3) ELSE margin
      a7 == setTextColor(a6, th.colors.text)
      a8 == text(a7, "company", company, companyX, y0)
      a9 == advance(advance(a8, pt(th, th.fonts.h3)),
                    px(th, th.spacing.jobHeaderMarginBottom))
  IN  IF company # "" THEN a9 ELSE a0

\* one iteration of the roles loop, up to the bullets loop
renderRoleHeader(s, th, role) ==
  LET margin == th.margin
      a0 == checkPageOverflow(s, th, 30 * MM)
      y0 == a0.y
      a1 == setFontSize(a0, th.fonts.subHeader)
      a2 == setFont(a1, FontFamily(th), "normal")
      hasPrefix == th.prefixes.jobMeta # ""
      b1 == setTextColor(a2, prefixGrayColor(th))
      b2 == text(b1, "prefix", th.prefixes.jobMeta, margin, y0)
      a3 == IF hasPrefix THEN b2 ELSE a2
      metaX == IF hasPrefix THEN margin + getTextWidth(b2, th.prefixes.jobMeta) ELSE margin
      c1 == text(setTextColor(a3, th.colors.role), "role", role.title, metaX, y0)
      a4 == IF role.title # "" THEN c1 ELSE a3
      d1 == textAs(setTextColor(a4, th.colors.role), "period", role.period, 1,
                   pageWidth - margin, y0, "right")
      a5 == IF role.period # "" THEN d1 ELSE a4
      a6 == advance(advance(a5, pt(th, th.fonts.subHeader)),
                    px(th, th.spacing.jobHeaderMarginBottom))
  IN  IF role.title # "" \/ role.period # "" THEN a6 ELSE a0

\* after the bullets loop of a role: y += px(theme, theme.spacing.ulMarginBottom)
endRole(s, th) == advance(s, px(th, th.spacing.ulMarginBottom))

\* after the roles loop of a job: y += px(theme, theme.spacing.sectionMarginBottom) / 2
endJob(s, th) == advance(s, Half(px(th, th.spacing.sectionMarginBottom)))

\* ------------------------------------------------------------- the render
VARIABLES
  theme,            \* the Theme of this render
  headerBarImage,   \* TRUE when loadImageAsBase64(theme.images.headerBar) gave data
  sectionBarImage,  \* TRUE when loadImageAsBase64(theme.images.sectionBar) gave data
  y,                \* the cursor
  pageIndex,        \* pages added so far
  docFontSize,      \* font size the backend retains
  docTextColor,     \* text colour the backend retains
  docFillColor,     \* fill colour the backend retains
  emitted,          \* the calls of the last block, in order
  lastBlock,        \* the kind of the last block rendered
  ctx,              \* innermost loop of generatePDF the render is in
  blocks,           \* blocks rendered so far
  pageStart,        \* the first two backend calls made on the current page
  listPage,         \* pageIndex when the current bullets loop was entered
  calls,            \* the generatePDF invocations in progress, by caller
  inlineText,       \* the text handed to parseInlineBold / renderInlineBold, and its result
  conversion        \* the value handed to px / pt / lineHeight, and its binary64 result

vars ==
  <<theme, headerBarImage, sectionBarImage, y, pageIndex, docFontSize, docTextColor,
    docFillColor, emitted, lastBlock, ctx, blocks, pageStart, listPage, calls, inlineText,
    conversion>>

\* ------------------------------------------------------------------ inputs
Themes == ShippedThemes
Names == {"Jane Doe"}
Contacts == {"", "jane@x.com"}
Titles == {"Skills"}
ExperienceTitles == {"Experience"}
Companies == {"", "Acme"}
RoleTitles == {"", "Engineer"}
Periods == {"", "2020-2024"}
LineCounts == {1, 3, MaxLines}
Texts == [text : {"A"}, lines : LineCounts]

\* the render state before the next block
Cur ==
  [y |-> y, page |-> pageIndex, size |-> docFontSize, color |-> docTextColor,
   fill |-> docFillColor, out |-> <<>>]

\* the backend calls of a block, without the logged checkPageOverflow calls
Calls(out) == SelectSeq(out, LAMBDA p : p.op # "checkPageOverflow")

\* positions of addPage in a sequence of calls
AddPageAt(out) == {i \in 1..Len(out) : out[i].op = "addPage"}

\* the first two calls of the current page once the calls c are made
StartAfter(start, c) ==
  IF AddPageAt(c) # {}
    THEN LET i == CHOOSE j \in AddPageAt(c) : \A k \in AddPageAt(c) : k <= j
         IN  SubSeq(c, i + 1, IF i + 2 <= Len(c) THEN i + 2 ELSE Len(c))
    ELSE SubSeq(start \o c, 1, IF Len(start \o c) >= 2 THEN 2 ELSE Len(start \o c))

\* the state after a block that left the render state r
Commit(r, kind, nextCtx) ==
  /\ y' = r.y
  /\ pageIndex' = r.page
  /\ docFontSize' = r.size
  /\ docTextColor' = r.color
  /\ docFillColor' = r.fill
  /\ emitted' = r.out
  /\ lastBlock' = kind
  /\ ctx' = nextCtx
  /\ pageStart' = StartAfter(pageStart, Calls(r.out))
  /\ listPage' = IF kind \in {"sectionTitle", "roleHeader"} THEN r.page ELSE listPage
  /\ UNCHANGED <<theme, headerBarImage, sectionBarImage, calls, inlineText, conversion>>

\* APPLY PAGE BACKGROUND: the calls generatePDF makes before the sections loop
applyPageBackground(s, th) ==
  rect(setFillColor(s, th.colors.bg), 0, 0, pageWidth, pageHeight)

FreshDoc(th) ==
  [y |-> th.margin, page |-> 0, size |-> DefaultFontSize, color |-> <<0, 0, 0>>,
   fill |-> <<0, 0, 0>>, out |-> <<>>]

Init ==
  /\ theme \in Themes
  /\ headerBarImage \in (IF theme.images.defined THEN BOOLEAN ELSE {FALSE})
  /\ sectionBarImage \in (IF theme.images.defined THEN BOOLEAN ELSE {FALSE})
  /\ y = theme.margin
  /\ pageIndex = 0
  /\ docFontSize = DefaultFontSize
  /\ docTextColor = <<0, 0, 0>>
  /\ docFillColor = applyPageBackground(FreshDoc(theme), theme).fill
  /\ emitted = applyPageBackground(FreshDoc(theme), theme).out
  /\ lastBlock = "background"
  /\ ctx = "top"
  /\ blocks = 0
  /\ pageStart = applyPageBackground(FreshDoc(theme), theme).out
  /\ listPage = 0
  /\ calls = <<>>
  /\ inlineText = <<>>
  /\ conversion = <<>>

\* the sections loop can take its next section
AtSection == ctx \in {"top", "section", "jobs"} /\ blocks < MaxBlocks

Header ==
  /\ AtSection
  /\ \E name \in Names, contact \in Contacts :
       Commit(renderHeader(Cur, theme, headerBarImage, [name |-> name, contact |-> contact]),
              "header", "top")
  /\ blocks' = blocks + 1

Summary ==
  /\ AtSection
  /\ \E content \in Texts : Commit(renderSummary(Cur, theme, content), "summary", "top")
  /\ blocks' = blocks + 1

SectionTitle ==
  /\ AtSection
  /\ \E title \in Titles :
       Commit(renderSectionTitle(Cur, theme, sectionBarImage, title), "sectionTitle", "section")
  /\ blocks' = blocks + 1

SectionBullet ==
  /\ ctx = "section" /\ blocks < MaxBlocks
  /\ \E bullet \in Texts : Commit(renderBullet(Cur, theme, bullet), "bullet", "section")
  /\ blocks' = blocks + 1

ExperienceTitle ==
  /\ AtSection
  /\ \E title \in ExperienceTitles :
       Commit(renderExperienceTitle(Cur, theme, sectionBarImage, title),
              "experienceTitle", "jobs")
  /\ blocks' = blocks + 1

JobHeader ==
  /\ ctx = "jobs" /\ blocks < MaxBlocks
  /\ \E company \in Companies : Commit(renderJobHeader(Cur, theme, company), "jobHeader", "roles")
  /\ blocks' = blocks + 1

RoleHeader ==
  /\ ctx = "roles" /\ blocks < MaxBlocks
  /\ \E title \in RoleTitles, period \in Periods :
       Commit(renderRoleHeader(Cur, theme, [title |-> title, period |-> period]),
              "roleHeader", "bullets")
  /\ blocks' = blocks + 1

RoleBullet ==
  /\ ctx = "bullets" /\ blocks < MaxBlocks
  /\ \E bullet \in Texts : Commit(renderBullet(Cur, theme, bullet), "bullet", "bullets")
  /\ blocks' = blocks + 1

EndRole ==
  /\ ctx = "bullets"
  /\ Commit(endRole(Cur, theme), "endRole", "roles")
  /\ UNCHANGED blocks

EndJob ==
  /\ ctx = "roles"
  /\ Commit(endJob(Cur, theme), "endJob", "jobs")
  /\ UNCHANGED blocks

\* doc.save("resume.pdf") once the sections loop has ended
Save ==
  /\ ctx \in {"top", "section", "jobs"}
  /\ Commit(Cur, "save", "done")
  /\ UNCHANGED blocks

Next ==
  \/ Header
  \/ Summary
  \/ SectionTitle
  \/ SectionBullet
  \/ ExperienceTitle
  \/ JobHeader
  \/ RoleHeader
  \/ RoleBullet
  \/ EndRole
  \/ EndJob
  \/ Save

Spec == Init /\ [][Next]_vars

\* ================================================================== claims
\* lowest y + required that starts a new page is just above this line
Bottom(th) == pageHeight - th.margin

\* the logged checkPageOverflow calls of a block, by position
ChecksAt(out) == {i \in 1..Len(out) : out[i].op = "checkPageOverflow"}

\* required-space values tried on a cursor: the three the composer passes,
\* and the two around the equality case for that cursor
RequiredAt(cursor, th) ==
  {15 * MM, 30 * MM, 40 * MM}
    \cup (IF cursor # NaN /\ cursor <= Bottom(th)
            THEN {Bottom(th) - cursor, Bottom(th) - cursor + 1}
            ELSE {})

\* C1: checkPageOverflow(required) starts exactly one new page, sets the
\* cursor to margin and returns true when cursorY + required > pageHeight -
\* margin held before the call; otherwise (equality included) it emits
\* nothing, leaves cursor and page index alone and returns false.  Checked on
\* every reachable cursor for the composer's estimates and the boundary
\* values, and on every call the composer actually made.
C1_CheckPageOverflow ==
  /\ \A r \in RequiredAt(y, theme) :
       LET s1 == checkPageOverflow(Cur, theme, r)
           c == Calls(s1.out)
       IN  IF y # NaN /\ y + r > pageHeight - theme.margin
             THEN /\ s1.page = pageIndex + 1
                  /\ s1.y = theme.margin
                  /\ s1.out[1].ret = TRUE
                  /\ Cardinality(AddPageAt(c)) = 1
                  /\ c[1].op = "addPage"
             ELSE /\ c = <<>>
                  /\ s1.y = y
                  /\ s1.page = pageIndex
                  /\ s1.out[1].ret = FALSE
  /\ \A i \in ChecksAt(emitted) :
       LET ev == emitted[i]
           over == ev.y # NaN /\ ev.y + ev.required > pageHeight - theme.margin
       IN  /\ ev.ret = over
           /\ over => i < Len(emitted) /\ emitted[i + 1].op = "addPage"
           /\ ~over => (i = Len(emitted) \/ emitted[i + 1].op # "addPage")

\* C1 witness: a block whose space check started a new page
C1_Witness ==
  \E i \in ChecksAt(emitted) : emitted[i].ret /\ pageIndex >= 1

IsBgFill(p, th) == p.op = "setFillColor" /\ p.color = th.colors.bg

IsBgRect(p, th) ==
  /\ p.op = "rect"
  /\ p.x = 0 /\ p.y = 0 /\ p.w = pageWidth /\ p.h = pageHeight
  /\ p.style = "F" /\ p.fill = th.colors.bg

\* C2: every page starts with its background: the first two calls made on
\* page 0 and the two calls right after every addPage are
\* setFillColor(theme.colors.bg) and rect(0, 0, pageWidth, pageHeight, 'F').
C2_PageStartsWithBackground ==
  /\ Len(pageStart) = 2
  /\ IsBgFill(pageStart[1], theme)
  /\ IsBgRect(pageStart[2], theme)
  /\ pageStart[2].page = pageIndex
  /\ LET c == Calls(emitted)
     IN  \A i \in AddPageAt(c) :
           /\ i + 2 <= Len(c)
           /\ IsBgFill(c[i + 1], theme)
           /\ IsBgRect(c[i + 2], theme)

\* C2 witness: text placed on a page that an addPage started
C2_Witness ==
  /\ pageIndex >= 1
  /\ \E i \in 1..Len(emitted) :
       /\ emitted[i].op = "text"
       /\ emitted[i].page = pageIndex
       /\ \E j \in AddPageAt(emitted) : j < i

\* the ghost tokens of a block, by position
GhostAt(out) == {i \in 1..Len(out) : out[i].op = "text" /\ out[i].role = "ghost"}

ContentRoles == {"name", "contact", "title", "company", "bullet"}

\* the element a ghost token marks
ContentRole(token) ==
  CASE token = "# " -> "name"
    [] token = "**Contact:** " -> "contact"
    [] token = "## " -> "title"
    [] token = "### " -> "company"
    [] token = "- " -> "bullet"
    [] OTHER -> "none"

\* positions after i holding the text of a heading, contact line, title,
\* company or bullet
ContentsAfter(out, i) ==
  {j \in (i + 1)..Len(out) : out[j].op = "text" /\ out[j].role \in ContentRoles}

\* the first of them: the visible content the ghost token at i marks (0: none)
ContentAfter(out, i) ==
  IF ContentsAfter(out, i) = {} THEN 0
  ELSE CHOOSE j \in ContentsAfter(out, i) : \A k \in ContentsAfter(out, i) : j <= k

C4_GhostInvisibleAndFirst ==
  \A i \in GhostAt(emitted) :
    LET j == ContentAfter(emitted, i)
    IN  /\ emitted[i].color = theme.colors.bg
        /\ j # 0
        /\ emitted[j].role = ContentRole(emitted[i].text)
        /\ \A k \in GhostAt(emitted) : ~(i < k /\ k < j)

\* C4 witness: a ghost token followed by a visibly coloured theme prefix and
\* then its content
C4_Witness ==
  \E i \in GhostAt(emitted) :
    \E k \in (i + 1)..Len(emitted) :
      /\ emitted[k].op = "text" /\ emitted[k].role = "prefix"
      /\ emitted[k].color # theme.colors.bg
      /\ k < ContentAfter(emitted, i)

Drawn == {"text", "rect", "line", "triangle", "addImage"}

\* C5: a block is never split across a page break: addPage is emitted only
\* by the space check that opens a block, and in a bullet nothing after the
\* ghost '- ' is an addPage or lands on another page than the ghost.
C5_BlockNotSplit ==
  /\ \A i \in AddPageAt(emitted) : i = 2 /\ emitted[1].op = "checkPageOverflow"
  /\ lastBlock = "bullet" =>
       \A g \in GhostAt(emitted) :
         \A k \in (g + 1)..Len(emitted) :
           /\ emitted[k].op # "addPage"
           /\ emitted[k].op \in Drawn => emitted[k].page = emitted[g].page

\* C5 witness: a bullet rendered right after the page break of its space check
C5_Witness ==
  /\ lastBlock = "bullet"
  /\ AddPageAt(emitted) # {}
  /\ \E g \in GhostAt(emitted) : emitted[g].page = pageIndex

\* bottom of the last line of the bullet just rendered
ListExtent == Sub(y, px(theme, theme.spacing.liMarginBottom))

\* C6 as stated: if the cumulative height of a bullet list exceeds the space
\* left on the page where it began, an addPage is emitted while the list is
\* rendered (so a list rendered so far without addPage still fits above the
\* bottom margin), and the first bullet after each addPage is at y = margin.
C6_Orig_ListOverflowAddsPage ==
  lastBlock = "bullet" =>
    /\ (pageIndex = listPage /\ y # NaN) => ListExtent <= Bottom(theme)
    /\ AddPageAt(emitted) # {} => \A g \in GhostAt(emitted) : emitted[g].y = theme.margin

\* C6 amended: whenever the cursor before a bullet has cursorY + 15 >
\* pageHeight - margin, exactly one addPage is emitted before that bullet and
\* the bullet (ghost token and text) is placed at y = margin on the new page;
\* otherwise no addPage is emitted for it, however tall the bullet is.
C6_BulletBreaksOnEstimate ==
  [][lastBlock' = "bullet" =>
       LET over == y # NaN /\ y + 15 * MM > pageHeight - theme.margin
       IN  /\ over => /\ pageIndex' = pageIndex + 1
                      /\ Cardinality(AddPageAt(emitted')) = 1
                      /\ \A i \in 1..Len(emitted') :
                           emitted'[i].op = "text" =>
                             /\ emitted'[i].y = theme.margin
                             /\ emitted'[i].page = pageIndex'
           /\ ~over => /\ pageIndex' = pageIndex
                       /\ AddPageAt(emitted') = {}
                       /\ \A i \in 1..Len(emitted') :
                            emitted'[i].op = "text" => emitted'[i].y = y]_vars

\* C6 witness: inside a section's bullet list, a bullet placed at the top of a
\* page added after the list began
C6_Witness ==
  /\ lastBlock = "bullet" /\ ctx = "section"
  /\ pageIndex > listPage
  /\ \E g \in GhostAt(emitted) : emitted[g].y = theme.margin /\ emitted[g].page = pageIndex

\* the text placements of a block, in order
TextCalls(out) == SelectSeq(out, LAMBDA p : p.op = "text")

NoPrefixTheme(th) ==
  /\ th.prefixes.h1 = "" /\ th.prefixes.subHeader = "" /\ th.prefixes.h2 = ""
  /\ th.prefixes.h3 = "" /\ th.prefixes.jobMeta = ""

At(p, role, px0, py0) == p.role = role /\ p.x = px0 /\ p.y = py0

\* the header of a document's first section as C7 describes it: ghost '# '
\* and the name at (margin, margin), then ghost '**Contact:** ' and the
\* contact at y = margin + pt(fonts.h1) + px(spacing.h1MarginBottom), which is
\* 22.408(3) mm = 1613400 units for margin 15, h1 18, h1MarginBottom 4
FirstHeaderAsStated ==
  LET t == TextCalls(emitted)
      m == theme.margin
      y2 == m + theme.fonts.h1 * 2540 + theme.spacing.h1MarginBottom * 19050
  IN  /\ Len(t) \in {2, 4}
      /\ At(t[1], "ghost", m, m) /\ t[1].text = "# "
      /\ At(t[2], "name", m, m) /\ t[2].text \in Names
      /\ Len(t) = 4 =>
           /\ At(t[3], "ghost", m, y2) /\ t[3].text = "**Contact:** "
           /\ At(t[4], "contact", m, y2) /\ t[4].text \in Contacts
           /\ (m = 15 * MM /\ theme.fonts.h1 = 180 /\ theme.spacing.h1MarginBottom = 4)
                => t[4].y = 1613400

\* y of the ghost token of a bullet block
GhostY(out) == out[CHOOSE g \in GhostAt(out) : TRUE].y

\* consecutive bullets of a bullet section on one page: each is a ghost '- '
\* followed by the bullet's text, at a strictly larger y than the one before
BulletsDescend ==
  (lastBlock = "bullet" /\ lastBlock' = "bullet" /\ ctx' = "section"
     /\ pageIndex' = pageIndex /\ y # NaN)
    => /\ GhostY(emitted') > GhostY(emitted)
       /\ \A g \in GhostAt(emitted') :
            /\ emitted'[g].text = "- "
            /\ ContentAfter(emitted', g) # 0
            /\ emitted'[ContentAfter(emitted', g)].y = emitted'[g].y

\* C7 as stated: under any theme with no prefixes, a header that is the first
\* section gives ghost '# ' and the name at (margin, margin), the contact pair
\* at margin + pt(h1) + px(h1MarginBottom), and the bullets that follow have
\* strictly increasing y on a page.
C7_Orig_EndToEnd ==
  /\ [](lastBlock = "header" /\ blocks = 1 /\ NoPrefixTheme(theme) => FirstHeaderAsStated)
  /\ [][NoPrefixTheme(theme) => BulletsDescend]_vars

\* C7 amended: the same, for themes with no prefixes whose name is not
\* 'Classic Minimalist' (that theme upper-cases and centres the name).
C7_EndToEnd ==
  /\ [](lastBlock = "header" /\ blocks = 1 /\ NoPrefixTheme(theme)
          /\ theme.name # "Classic Minimalist" => FirstHeaderAsStated)
  /\ [][NoPrefixTheme(theme) /\ theme.name # "Classic Minimalist" => BulletsDescend]_vars

\* C7 witness: header with contact first, then a section with two bullets on
\* the same page, under the theme of the example (margin 15, h1 18)
C7_Witness ==
  /\ theme.name = "Modern Professional"
  /\ blocks = 4 /\ pageIndex = 0
  /\ lastBlock = "bullet" /\ ctx = "section"
  /\ GhostY(emitted) > 1613400 + 2 * MM

\* blocks that render a section or a list item
ItemBlocks ==
  {"header", "summary", "sectionTitle", "experienceTitle", "bullet", "jobHeader", "roleHeader"}

\* C8 as stated: for every section of every kind, and for each bullet, job
\* and role, the space check is called before any primitive of it is emitted.
C8_Orig_EnsureSpaceFirst ==
  lastBlock \in ItemBlocks => Len(emitted) >= 1 /\ emitted[1].op = "checkPageOverflow"

\* the theme font size C9 assigns to a text placement (0: none assigned)
ExpectedSize(p, th) ==
  CASE p.role = "name" -> th.fonts.h1
    [] p.role = "ghost" /\ p.text = "# " -> th.fonts.h1
    [] p.role \in {"contact", "role", "period"} -> th.fonts.subHeader
    [] p.role = "title" -> th.fonts.h2
    [] p.role = "ghost" /\ p.text = "## " -> th.fonts.h2
    [] p.role = "company" -> th.fonts.h3
    [] p.role = "summary" -> th.fonts.body
    [] p.role = "bullet" -> th.fonts.li
    [] OTHER -> 0

\* C9 as stated: whenever a text primitive is placed, the font size in effect
\* is the theme size of its element's kind (h1 for the name and '# ',
\* subHeader for contact and role lines, h2 for titles and '## ', h3 for
\* company headings, body for the summary, li for bullet text).
C9_Orig_FontSizePerElement ==
  \A i \in 1..Len(emitted) :
    (emitted[i].op = "text" /\ ExpectedSize(emitted[i], theme) # 0)
      => emitted[i].size = ExpectedSize(emitted[i], theme)

\* a theme equal to th in every field except name
Rename(th, n) == [th EXCEPT !.name = n]

\* names a theme can declare: the six shipped ones and one of a user's own
AltNames ==
  {"Modern Professional", "Classic Minimalist", "Compact Executive", "Terminal/Hacker",
   "Creative Designer", "Creative Designer 2", "Custom"}

\* everything the composer can emit next from the current state under th:
\* each block on each input, and the page background of a fresh render
Outcomes(th) ==
  <<[c \in [name : Names, contact : Contacts] |-> renderHeader(Cur, th, headerBarImage, c)],
    [c \in Texts |-> renderSummary(Cur, th, c)],
    [t \in Titles |-> renderSectionTitle(Cur, th, sectionBarImage, t)],
    [t \in ExperienceTitles |-> renderExperienceTitle(Cur, th, sectionBarImage, t)],
    [b \in Texts |-> renderBullet(Cur, th, b)],
    [c \in Companies |-> renderJobHeader(Cur, th, c)],
    [r \in [title : RoleTitles, period : Periods] |-> renderRoleHeader(Cur, th, r)],
    endRole(Cur, th),
    endJob(Cur, th),
    applyPageBackground(FreshDoc(th), th)>>

BranchNames ==
  {"Classic Minimalist", "Compact Executive", "Creative Designer", "Creative Designer 2"}

\* the family themeFonts[name] || 'Inter' gives the names considered:
\* JetBrainsMono for the two monospace themes, Inter for the others
FamilyOfName(n) ==
  IF n \in {"Compact Executive", "Terminal/Hacker"} THEN "JetBrainsMono" ELSE "Inter"

Callers == {1, 2}

\* the three files generatePDF awaits, in order
FontFiles == <<"Inter-Regular.ttf", "Inter-Medium.ttf", "JetBrainsMono-Regular.ttf">>

\* the two files generatePDF awaits when theme.images is set, in order
ImageFiles == <<"headerBar", "sectionBar">>

\* formData.sections entries
HeaderSection == [type |-> "header", content |-> [name |-> "Jane Doe", contact |-> "jane@x.com"]]
SummarySection == [type |-> "summary", content |-> [text |-> "A", lines |-> 3]]
BulletSection ==
  [type |-> "section", title |-> "Skills",
   content |-> [bullets |-> <<[text |-> "A", lines |-> 1], [text |-> "A", lines |-> 3]>>]]
SampleRole ==
  [title |-> "Engineer", period |-> "2020-2024", bullets |-> <<[text |-> "A", lines |-> 1]>>]
SampleJob == [company |-> "Acme", roles |-> <<SampleRole>>]
ExperienceSection(jobs) ==
  [type |-> "experience", title |-> "Experience", content |-> [jobs |-> jobs]]

\* a section of a type the sections loop has no branch for
UnknownSection == [type |-> "education", title |-> "Education", content |-> [text |-> "A", lines |-> 2]]

FormDatas ==
  {[sections |-> <<HeaderSection, SummarySection>>],
   [sections |-> <<HeaderSection, BulletSection, ExperienceSection(<<SampleJob>>)>>],
   [sections |-> <<HeaderSection, UnknownSection, BulletSection, UnknownSection,
                   ExperienceSection(<<SampleJob>>)>>],
   [sections |-> <<HeaderSection, ExperienceSection(<<SampleJob, SampleJob>>), BulletSection>>]}

\* statement sequencing: the render state s left by one statement is
\* computed once and the rest of the code, F, runs on it
Then(s, F(_)) == CHOOSE r \in {F(a) : a \in {s}} : TRUE

\* section.content.bullets.forEach / role.bullets.forEach
RECURSIVE renderBullets(_, _, _)
renderBullets(s, th, bullets) ==
  IF bullets = <<>>
    THEN s
    ELSE Then(renderBullet(s, th, Head(bullets)),
              LAMBDA a : renderBullets(a, th, Tail(bullets)))

\* job.roles.forEach
RECURSIVE renderRoles(_, _, _)
renderRoles(s, th, roles) ==
  IF roles = <<>>
    THEN s
    ELSE Then(renderRoleHeader(s, th, Head(roles)), LAMBDA a1 :
         Then(renderBullets(a1, th, Head(roles).bullets), LAMBDA a2 :
         Then(endRole(a2, th), LAMBDA a3 :
         renderRoles(a3, th, Tail(roles)))))

\* section.content.jobs.forEach
RECURSIVE renderJobs(_, _, _)
renderJobs(s, th, jobs) ==
  IF jobs = <<>>
    THEN s
    ELSE Then(renderJobHeader(s, th, Head(jobs).company), LAMBDA a1 :
         Then(renderRoles(a1, th, Head(jobs).roles), LAMBDA a2 :
         Then(endJob(a2, th), LAMBDA a3 :
         renderJobs(a3, th, Tail(jobs)))))

\* faulty variant of renderSection: the chain ends in an else branch that
\* renders a section of any other type as a summary
renderSection_else(s, th, headerBar, sectionBar, section) ==
  CASE section.type = "header" -> renderHeader(s, th, headerBar, section.content)
    [] section.type = "section" ->
         Then(renderSectionTitle(s, th, sectionBar, section.title), LAMBDA a :
         renderBullets(a, th, section.content.bullets))
    [] section.type = "experience" ->
         Then(renderExperienceTitle(s, th, sectionBar, section.title), LAMBDA a :
         renderJobs(a, th, section.content.jobs))
    [] OTHER -> renderSummary(s, th, section.content)

\* the body of formData.sections.forEach for one section
renderSection(s, th, headerBar, sectionBar, section) ==
  CASE section.type = "header" -> renderHeader(s, th, headerBar, section.content)
    [] section.type = "summary" -> renderSummary(s, th, section.content)
    [] section.type = "section" ->
         Then(renderSectionTitle(s, th, sectionBar, section.title), LAMBDA a :
         renderBullets(a, th, section.content.bullets))
    [] section.type = "experience" ->
         Then(renderExperienceTitle(s, th, sectionBar, section.title), LAMBDA a :
         renderJobs(a, th, section.content.jobs))
    [] OTHER -> s

\* formData.sections.forEach
RECURSIVE renderSections(_, _, _, _, _)
renderSections(s, th, headerBar, sectionBar, sections) ==
  IF sections = <<>>
    THEN s
    ELSE Then(renderSection(s, th, headerBar, sectionBar, Head(sections)), LAMBDA a :
         renderSections(a, th, headerBar, sectionBar, Tail(sections)))

\* a caller that has not called generatePDF
Idle == [pc |-> "idle"]

\* faulty variant of newDocument: one backend document kept between invocations
newDocument_kept(others) ==
  IF \E j \in DOMAIN others : others[j].pc # "idle"
    THEN LET j == CHOOSE k \in DOMAIN others : others[k].pc # "idle" IN others[j].doc
    ELSE <<>>

\* const doc = new jsPDF(...): the calls made so far on the document of an
\* invocation that starts while the invocations others are in progress
newDocument(others) == <<>>

\* generatePDF(theme, formData) up to its first await
generatePDF(th, fd, others) ==
  [pc |-> "fonts", awaiting |-> 1, theme |-> th, formData |-> fd, fonts |-> "pending",
   headerBarImage |-> FALSE, sectionBarImage |-> FALSE, imagesPending |-> FALSE,
   y |-> NaN, doc |-> newDocument(others), saved |-> FALSE]

\* faulty variant of cursorOf: y declared outside generatePDF, so that an
\* invocation reads the cursor another invocation left behind
cursorOf_shared(c) ==
  IF \E j \in DOMAIN calls : calls[j].pc = "done"
    THEN calls[CHOOSE j \in DOMAIN calls : calls[j].pc = "done"].y
    ELSE c.y

\* let y: the cursor of invocation c, a variable of its own closure
cursorOf(c) == c.y

\* the synchronous rest of generatePDF: the sections loop and doc.save
composeAndSave(c) ==
  LET s0 == [FreshDoc(c.theme) EXCEPT !.y = cursorOf(c),
                                      !.fill = c.theme.colors.bg]
  IN  Then(s0, LAMBDA a0 :
      Then(renderSections(a0, c.theme, c.headerBarImage, c.sectionBarImage,
                          c.formData.sections), LAMBDA s1 :
      [c EXCEPT !.pc = "done", !.y = s1.y, !.doc = c.doc \o Calls(s1.out),
                !.saved = TRUE]))

\* faulty variant of afterFonts: the image loads are started and awaited
\* before the page background is drawn
afterFonts_imagesFirst(c, outcome) ==
  LET bg == applyPageBackground(FreshDoc(c.theme), c.theme)
      c1 == [c EXCEPT !.fonts = outcome, !.y = c.theme.margin]
  IN  IF c.theme.images.defined
        THEN [c1 EXCEPT !.pc = "images", !.awaiting = 1, !.imagesPending = TRUE]
        ELSE composeAndSave([c1 EXCEPT !.doc = c.doc \o Calls(bg.out)])

\* generatePDF from the end of the font try/catch to its next await: the
\* layout constants, y = margin, the page background, and the first image
\* load when theme.images is set
afterFonts(c, outcome) ==
  LET bg == applyPageBackground(FreshDoc(c.theme), c.theme)
      c1 == [c EXCEPT !.fonts = outcome, !.y = c.theme.margin,
                      !.doc = c.doc \o Calls(bg.out)]
  IN  IF c.theme.images.defined
        THEN [c1 EXCEPT !.pc = "images", !.awaiting = 1, !.imagesPending = TRUE]
        ELSE composeAndSave(c1)

\* the other callers' invocations, as caller i sees them
Others(i) == [j \in Callers \ {i} |-> calls[j]]

\* every variable of the single render, left alone by the async steps
renderVars ==
  <<theme, headerBarImage, sectionBarImage, y, pageIndex, docFontSize, docTextColor,
    docFillColor, emitted, lastBlock, ctx, blocks, pageStart, listPage>>

InitAsync ==
  /\ calls = [i \in Callers |-> Idle]
  /\ inlineText = <<>>
  /\ conversion = <<>>
  /\ theme = ThemeModern
  /\ headerBarImage = FALSE
  /\ sectionBarImage = FALSE
  /\ y = theme.margin
  /\ pageIndex = 0
  /\ docFontSize = DefaultFontSize
  /\ docTextColor = <<0, 0, 0>>
  /\ docFillColor = <<0, 0, 0>>
  /\ emitted = <<>>
  /\ lastBlock = "none"
  /\ ctx = "done"
  /\ blocks = 0
  /\ pageStart = <<>>
  /\ listPage = 0

\* a caller invokes generatePDF, which runs to its first await
Invoke(i) ==
  /\ calls[i].pc = "idle"
  /\ \E th \in Themes, fd \in FormDatas :
       calls' = [calls EXCEPT ![i] = generatePDF(th, fd, Others(i))]
  /\ UNCHANGED <<renderVars, inlineText, conversion>>

\* the awaited loadFontAsBase64 resolves; after the third the fonts are
\* registered and generatePDF runs on to its next await
FontLoaded(i) ==
  /\ calls[i].pc = "fonts"
  /\ calls' = [calls EXCEPT ![i] =
                 IF calls[i].awaiting < Len(FontFiles)
                   THEN [calls[i] EXCEPT !.awaiting = @ + 1]
                   ELSE afterFonts(calls[i], "registered")]
  /\ UNCHANGED <<renderVars, inlineText, conversion>>

\* the awaited loadFontAsBase64 rejects: the catch block logs and
\* generatePDF runs on to its next await
FontFailed(i) ==
  /\ calls[i].pc = "fonts"
  /\ calls' = [calls EXCEPT ![i] = afterFonts(calls[i], "failed")]
  /\ UNCHANGED <<renderVars, inlineText, conversion>>

\* the awaited loadImageAsBase64 resolves, with data or with null; after the
\* second generatePDF runs to its end
ImageSettled(i) ==
  /\ calls[i].pc = "images"
  /\ \E data \in BOOLEAN :
       calls' = [calls EXCEPT ![i] =
                   IF calls[i].awaiting < Len(ImageFiles)
                     THEN [calls[i] EXCEPT !.headerBarImage = data, !.awaiting = @ + 1]
                     ELSE composeAndSave([calls[i] EXCEPT !.sectionBarImage = data,
                                                          !.imagesPending = FALSE])]
  /\ UNCHANGED <<renderVars, inlineText, conversion>>

NextAsync ==
  \/ \E i \in Callers : Invoke(i)
  \/ \E i \in Callers : FontLoaded(i)
  \/ \E i \in Callers : FontFailed(i)
  \/ \E i \in Callers : ImageSettled(i)

SpecAsync == InitAsync /\ [][NextAsync]_vars


\* ------------------------------------------------- claims on the async run
\* the invocations that have reached doc.save
Done == {i \in Callers : calls[i].pc = "done"}

\* what a render is given: theme, document and the outcome of every load
Given(c) ==
  [theme |-> c.theme, formData |-> c.formData, fonts |-> c.fonts,
   headerBarImage |-> c.headerBarImage, sectionBarImage |-> c.sectionBarImage]

Background(th) == Calls(applyPageBackground(FreshDoc(th), th).out)

\* C12 as stated: every font load and, when theme.images is set, both image
\* loads have completed before the first call is made on the document; no
\* call is made while a load is outstanding.
C12_Orig_LoadsBeforeFirstCall ==
  \A i \in Callers :
    calls[i].pc \in {"fonts", "images"} => calls[i].doc = <<>>

\* C12 (amended): the three font loads have settled before the first call
\* is made on the document; the page background (setFillColor, rect) is
\* drawn after them and before the image loads are awaited; while an image
\* load is outstanding the document holds the page background and nothing
\* else, so every call of the sections loop comes after both image loads.
C12_FontsThenBackgroundThenImages ==
  \A i \in Callers :
    LET c == calls[i]
    IN  /\ c.pc = "fonts" => c.doc = <<>>
        /\ c.pc = "images" =>
             /\ c.fonts \in {"registered", "failed"}
             /\ c.imagesPending
             /\ c.doc = Background(c.theme)
        /\ (c.pc = "done" /\ Len(c.doc) > Len(Background(c.theme))) =>
             /\ ~c.imagesPending
             /\ c.fonts \in {"registered", "failed"}
             /\ SubSeq(c.doc, 1, 2) = Background(c.theme)

\* C12 witness: the page background is on the document while the second
\* image load is outstanding
C12_Witness ==
  \E i \in Callers :
    /\ calls[i].pc = "images" /\ calls[i].awaiting = 2
    /\ Len(calls[i].doc) = 2
    /\ calls[i].doc[2].op = "rect"

\* generatePDF run by itself on what invocation c was given: the render
\* state after the page background and the whole sections loop
Alone(c) ==
  renderSections(applyPageBackground(FreshDoc(c.theme), c.theme), c.theme,
                 c.headerBarImage, c.sectionBarImage, c.formData.sections)

\* the stream and cursor invocation c has if nothing interferes with it
ExpectedDoc(c) ==
  CASE c.pc = "fonts" -> <<>>
    [] c.pc = "images" -> Background(c.theme)
    [] c.pc = "done" -> Calls(Alone(c).out)

ExpectedY(c) ==
  CASE c.pc = "fonts" -> NaN
    [] c.pc = "images" -> c.theme.margin
    [] c.pc = "done" -> Alone(c).y

\* C13: two generatePDF invocations interleaved at their await points do not
\* interfere.  At every point each invocation holds the stream and the
\* cursor it would hold had it run alone on the same inputs, and a step of
\* one invocation changes nothing of the other.
C13_NoInterference ==
  /\ [](\A i \in Callers :
          calls[i].pc # "idle" =>
            /\ calls[i].doc = ExpectedDoc(calls[i])
            /\ calls[i].y = ExpectedY(calls[i]))
  /\ [][\A i \in Callers :
          calls'[i] # calls[i] => \A j \in Callers \ {i} : calls'[j] = calls[j]]_vars

\* C13 witness: one invocation finished a document with an experience
\* section while the other, started with another theme, still awaits a load
C13_Witness ==
  \E i \in Callers, j \in Callers :
    /\ calls[i].pc = "done" /\ calls[j].pc = "images"
    /\ calls[i].theme.name # calls[j].theme.name
    /\ Len(calls[i].formData.sections) = 3
    /\ calls[i].y # calls[i].theme.margin

\* the kind of a backend call: for text, its call site and string as well
Shape(p) == IF p.op = "text" THEN <<p.op, p.role, p.text>> ELSE <<p.op>>

RECURSIVE Shapes(_)
Shapes(out) == IF out = <<>> THEN <<>> ELSE <<Shape(Head(out))>> \o Shapes(Tail(out))

NotImage(p) == p.op # "addImage"

ImagesOf(out, img) == {k \in 1..Len(out) : out[k].op = "addImage" /\ out[k].image = img}

BuiltinFamily == "helvetica"

\* C17 as stated: when font loading fails the render continues and every
\* setFont the composer issues names the backend's built-in family, not a
\* custom family that was never registered.
C17_Orig_FallbackFamily ==
  \A i \in Done :
    calls[i].fonts = "failed" =>
      \A k \in 1..Len(calls[i].doc) :
        calls[i].doc[k].op = "setFont" => calls[i].doc[k].family = BuiltinFamily


\* the coordinates and extents a backend call is given
Coords(p) ==
  CASE p.op = "text" -> {p.x, p.y}
    [] p.op \in {"rect", "addImage"} -> {p.x, p.y, p.w, p.h}
    [] p.op = "line" -> {p.x, p.y, p.x2, p.y2}
    [] p.op = "triangle" -> {p.x, p.y, p.x2, p.y2, p.x3, p.y3}
    [] OTHER -> {}

\* C14 as stated: with the assets loaded no render goes wrong mid-stream:
\* for every shipped theme and every sequence of header, summary, bullet and
\* experience sections (several jobs included) every backend call is made
\* with defined numeric coordinates, up to and including the save step.
C14_Orig_DefinedCoordinates ==
  \A k \in 1..Len(emitted) : NaN \notin Coords(emitted[k])

\* the keys generatePDF reads from the theme's maps
SpacingKeysRead ==
  {"h1MarginBottom", "h2MarginBottom", "h2MarginTop", "h3MarginTop", "jobHeaderMarginBottom",
   "liMarginBottom", "sectionMarginBottom", "subHeaderMarginBottom", "ulMarginBottom"}
FontKeysRead == {"body", "h1", "h2", "h3", "li", "subHeader"}
LineHeightKeysRead == {"body", "li"}
ColorKeysRead == {"bg", "heading", "name", "role", "text"}
PrefixKeysRead == {"bullet", "h1", "h2", "h3", "jobMeta", "subHeader"}

\* C15 as stated: every key the composer reads from theme.spacing,
\* theme.fonts, theme.lineHeights, theme.colors (the non-optional ones) and
\* theme.prefixes is defined in the theme being rendered, for each of the six
\* shipped themes.
C15_Orig_EveryKeyDefined ==
  /\ \A k \in SpacingKeysRead : k \in DOMAIN theme.spacing /\ theme.spacing[k] # NaN
  /\ FontKeysRead \subseteq DOMAIN theme.fonts
  /\ LineHeightKeysRead \subseteq DOMAIN theme.lineHeights
  /\ \A k \in ColorKeysRead : k \in DOMAIN theme.colors /\ theme.colors[k] # Undef
  /\ PrefixKeysRead \subseteq DOMAIN theme.prefixes


\* ================================================ inline bold (**text**)
\* A text is a sequence of characters; "a" stands for any character that is
\* neither a space nor an asterisk.
MaxTextLen == 6
Alphabet == {"a", " ", "*"}
InlineTexts == UNION {[1..n -> Alphabet] : n \in 0..MaxTextLen}

\* faulty variant of afterDelimiter: the scan steps over one asterisk only
afterDelimiter_one(i) == i + 1

\* i += 2: the index after a '**' delimiter found at index i
afterDelimiter(i) == i + 2

\* faulty variant of flush: the segment is pushed without its bold flag
flush_plain(segments, current, inBold) ==
  IF current # <<>> THEN Append(segments, [text |-> current, bold |-> FALSE]) ELSE segments

\* if (current) segments.push({ text: current, bold: inBold })
flush(segments, current, inBold) ==
  IF current # <<>> THEN Append(segments, [text |-> current, bold |-> inBold]) ELSE segments

\* the while loop of parseInlineBold from index i (1-based) and its final push
RECURSIVE parseFrom(_, _, _, _, _)
parseFrom(txt, i, current, inBold, segments) ==
  IF i > Len(txt)
    THEN flush(segments, current, inBold)
    ELSE IF txt[i] = "*" /\ i + 1 <= Len(txt) /\ txt[i + 1] = "*"
      THEN parseFrom(txt, afterDelimiter(i), <<>>, ~inBold, flush(segments, current, inBold))
      ELSE parseFrom(txt, i + 1, Append(current, txt[i]), inBold, segments)

\* faulty variant of parseInlineBold: the scan starts with the flag set
parseInlineBold_startBold(txt) == parseFrom(txt, 1, <<>>, TRUE, <<>>)

\* let inBold = false; let current = ''; let i = 0
parseInlineBold(txt) == parseFrom(txt, 1, <<>>, FALSE, <<>>)

\* segment.text.split(' '): the pieces between single spaces, empty ones kept
RECURSIVE splitFrom(_, _, _)
splitFrom(t, word, words) ==
  IF t = <<>>
    THEN Append(words, word)
    ELSE IF Head(t) = " "
      THEN splitFrom(Tail(t), <<>>, Append(words, word))
      ELSE splitFrom(Tail(t), Append(word, Head(t)), words)

split(t) == splitFrom(t, <<>>, <<>>)

\* width per character of the backend's font metrics, by font style
CharWidths ==
  {[normal |-> 0, bold |-> 0],
   [normal |-> 30 * MM, bold |-> 40 * MM],
   [normal |-> 90 * MM, bold |-> 100 * MM],
   [normal |-> 200 * MM, bold |-> 200 * MM]}

\* doc.getTextWidth(t) with the font style last set
getTextWidthIn(charWidth, font, t) == Len(t) * charWidth[font]

\* faulty variant of wraps: the line is broken only by a word that starts
\* beyond the right edge
wraps_late(currentX, textWidth, rightEdge, x) == currentX > rightEdge /\ currentX > x

\* faulty variant of wraps: the line is broken by every word that exceeds
\* the right edge, also by one at the start column
wraps_always(currentX, textWidth, rightEdge, x) == currentX + textWidth > rightEdge

\* currentX + textWidth > rightEdge && currentX > x
wraps(currentX, textWidth, rightEdge, x) == currentX + textWidth > rightEdge /\ currentX > x

\* segment.bold && idx === 0 (idx is 1-based here)
opensBold(bold, idx) == bold /\ idx = 1

\* faulty variant of closesBold: a closing marker after every bold word
closesBold_every(bold, idx, n) == bold

\* segment.bold && idx === words.length - 1
closesBold(bold, idx, n) == bold /\ idx = n

\* the body of words.forEach for the word at index idx (1-based) of n; st
\* holds the document and currentX, currentY
renderWord(st, word, idx, n, bold, x, th, rightEdge, fontFamily, charWidth) ==
  LET textToRender == IF idx < n THEN Append(word, " ") ELSE word
      font == IF bold THEN "bold" ELSE "normal"
      d1 == setFont(st.doc, fontFamily, font)
      textWidth == getTextWidthIn(charWidth, font, textToRender)
      wrap == wraps(st.currentX, textWidth, rightEdge, x)
      cy == IF wrap
              THEN st.currentY + lineHeight(th, th.fonts.li, th.lineHeights.li)
              ELSE st.currentY
      cx == IF wrap THEN x ELSE st.currentX
      d2 == IF opensBold(bold, idx)
              THEN text(setTextColor(d1, th.colors.bg), "ghost", "**", cx, cy)
              ELSE d1
      d3 == text(setTextColor(d2, th.colors.text), "word", textToRender, cx, cy)
      d4 == IF closesBold(bold, idx, n)
              THEN text(setTextColor(d3, th.colors.bg), "ghost", "**", cx + textWidth, cy)
              ELSE d3
  IN  [doc |-> d4, currentX |-> cx + textWidth, currentY |-> cy]

\* words.forEach from index idx
RECURSIVE renderWords(_, _, _, _, _, _, _, _, _)
renderWords(st, words, idx, bold, x, th, rightEdge, fontFamily, charWidth) ==
  IF idx > Len(words)
    THEN st
    ELSE Then(renderWord(st, words[idx], idx, Len(words), bold, x, th, rightEdge,
                         fontFamily, charWidth), LAMBDA a :
         renderWords(a, words, idx + 1, bold, x, th, rightEdge, fontFamily, charWidth))

\* segments.forEach
RECURSIVE renderSegments(_, _, _, _, _, _, _)
renderSegments(st, segments, x, th, rightEdge, fontFamily, charWidth) ==
  IF segments = <<>>
    THEN st
    ELSE Then(renderWords(st, split(Head(segments).text), 1, Head(segments).bold, x, th,
                          rightEdge, fontFamily, charWidth), LAMBDA a :
         renderSegments(a, Tail(segments), x, th, rightEdge, fontFamily, charWidth))

\* renderInlineBold(doc, text, x, y, theme, maxWidth, pageWidth, margin,
\* fontFamily): the document after it and the y it returns; charWidth is the
\* font metrics of doc
renderInlineBold(doc, txt, x, yy, th, maxWidth, pageW, margin, fontFamily, charWidth) ==
  LET rightEdge == pageW - margin
      st == renderSegments([doc |-> doc, currentX |-> x, currentY |-> yy],
                           parseInlineBold(txt), x, th, rightEdge, fontFamily, charWidth)
  IN  [doc |-> st.doc, currentY |-> st.currentY]

\* themes, start columns and text widths the inline renderer is run with
InlineThemes == {ThemeModern, ThemeTerminal}
StartXs(th) == {th.margin, pageWidth - th.margin, pageWidth - th.margin + MM}
MaxWidths(th) == {pageWidth - 2 * th.margin, 50 * MM}

InitInline ==
  /\ inlineText \in [phase : {"text"}, text : InlineTexts]
  /\ calls = <<>>
  /\ conversion = <<>>
  /\ theme = ThemeModern
  /\ headerBarImage = FALSE
  /\ sectionBarImage = FALSE
  /\ y = theme.margin
  /\ pageIndex = 0
  /\ docFontSize = DefaultFontSize
  /\ docTextColor = <<0, 0, 0>>
  /\ docFillColor = <<0, 0, 0>>
  /\ emitted = <<>>
  /\ lastBlock = "none"
  /\ ctx = "done"
  /\ blocks = 0
  /\ pageStart = <<>>
  /\ listPage = 0

\* parseInlineBold applied to the text
ParseInlineBold ==
  /\ inlineText.phase = "text"
  /\ inlineText' = [phase |-> "parsed", text |-> inlineText.text,
                    segments |-> parseInlineBold(inlineText.text)]
  /\ UNCHANGED <<renderVars, calls, conversion>>

\* renderInlineBold applied to the text on a fresh document
RenderInlineBold ==
  /\ inlineText.phase = "text"
  /\ \E th \in InlineThemes, charWidth \in CharWidths :
       \E x \in StartXs(th), maxWidth \in MaxWidths(th) :
         LET r == renderInlineBold(FreshDoc(th), inlineText.text, x, th.margin, th, maxWidth,
                                   pageWidth, th.margin, FontFamily(th), charWidth)
         IN  inlineText' = [phase |-> "rendered", text |-> inlineText.text, theme |-> th,
                            x |-> x, y |-> th.margin, charWidth |-> charWidth,
                            maxWidth |-> maxWidth,
                            out |-> r.doc.out, currentY |-> r.currentY]
  /\ UNCHANGED <<renderVars, calls, conversion>>

NextInline ==
  \/ ParseInlineBold
  \/ RenderInlineBold

SpecInline == InitInline /\ [][NextInline]_vars


\* ------------------------------------------------ claims on inline bold
\* a text read left to right: "D" for each '**', "c" for every other character
RECURSIVE Tokens(_)
Tokens(t) ==
  IF t = <<>>
    THEN <<>>
    ELSE IF Len(t) >= 2 /\ t[1] = "*" /\ t[2] = "*"
      THEN <<"D">> \o Tokens(SubSeq(t, 3, Len(t)))
      ELSE <<"c">> \o Tokens(Tail(t))

\* the text with every '**' removed
RECURSIVE Strip(_)
Strip(t) ==
  IF t = <<>>
    THEN <<>>
    ELSE IF Len(t) >= 2 /\ t[1] = "*" /\ t[2] = "*"
      THEN Strip(SubSeq(t, 3, Len(t)))
      ELSE <<t[1]>> \o Strip(Tail(t))

DelimCount(t) == Cardinality({k \in 1..Len(Tokens(t)) : Tokens(t)[k] = "D"})

\* delimiters come in pairs
WellFormed(t) == DelimCount(t) % 2 = 0

RECURSIVE ConcatTexts(_)
ConcatTexts(segments) ==
  IF segments = <<>> THEN <<>> ELSE Head(segments).text \o ConcatTexts(Tail(segments))

\* C18: parseInlineBold is lossless: for every text whose '**' delimiters
\* are paired, the text fields of the returned segments, concatenated in
\* order, are the input with every '**' removed.
C18_Lossless ==
  (inlineText # <<>> /\ inlineText.phase = "parsed" /\ WellFormed(inlineText.text)) =>
    ConcatTexts(inlineText.segments) = Strip(inlineText.text)

\* C18 witness: a parsed text with one pair of delimiters around a bold run
\* and plain text outside it
C18_Witness ==
  /\ inlineText # <<>> /\ inlineText.phase = "parsed"
  /\ DelimCount(inlineText.text) = 2
  /\ Len(inlineText.segments) = 2
  /\ inlineText.segments[1].bold /\ ~inlineText.segments[2].bold

Alternating(segments) ==
  \A k \in 1..(Len(segments) - 1) : segments[k].bold # segments[k + 1].bold

\* no '**' directly follows another '**'
NoAdjacentDelims(t) ==
  \A k \in 1..(Len(Tokens(t)) - 1) : ~(Tokens(t)[k] = "D" /\ Tokens(t)[k + 1] = "D")

\* C19 as stated: for every input text any two consecutive segments
\* parseInlineBold returns have opposite bold flags.
C19_Orig_Alternating ==
  (inlineText # <<>> /\ inlineText.phase = "parsed") => Alternating(inlineText.segments)

\* C19 (amended): parseInlineBold returns no empty segment, and consecutive
\* segments have opposite bold flags for every text in which no '**'
\* directly follows another '**'; an empty run between two delimiters is
\* dropped, which leaves two segments with the same flag next to each other.
C19_AlternatingBetweenRuns ==
  (inlineText # <<>> /\ inlineText.phase = "parsed") =>
    /\ \A k \in 1..Len(inlineText.segments) : inlineText.segments[k].text # <<>>
    /\ NoAdjacentDelims(inlineText.text) => Alternating(inlineText.segments)
    /\ (inlineText.segments # <<>> /\ Tokens(inlineText.text)[1] = "c") =>
         ~inlineText.segments[1].bold

\* C19 witness: a parsed text with a plain run followed by a bold run
C19_Witness ==
  /\ inlineText # <<>> /\ inlineText.phase = "parsed"
  /\ NoAdjacentDelims(inlineText.text)
  /\ Len(inlineText.segments) = 2
  /\ ~inlineText.segments[1].bold /\ inlineText.segments[2].bold
  /\ DelimCount(inlineText.text) = 2

\* the words renderInlineBold placed, by position in the calls
WordsAt(out) == {k \in 1..Len(out) : out[k].op = "text" /\ out[k].role = "word"}

\* the font style in effect at call k
StyleAt(out, k) ==
  LET before == {j \in 1..(k - 1) : out[j].op = "setFont"}
  IN  out[CHOOSE j \in before : \A i \in before : i <= j].style

\* the measured width of the word placed by call k
WidthAt(r, k) == getTextWidthIn(r.charWidth, StyleAt(r.out, k), r.out[k].text)

RightEdge(r) == pageWidth - r.theme.margin

ExtendsPast(r, k) == r.out[k].x + WidthAt(r, k) > RightEdge(r)

\* the words placed before call k on the line of call k
EarlierOnLine(r, k) == {j \in WordsAt(r.out) : j < k /\ r.out[j].y = r.out[k].y}

\* C20 as stated: with the start x not beyond the right margin no word is
\* placed with its start x beyond the right margin (pageWidth - margin), and
\* a word that extends past the right margin is the first on its line.
C20_Orig_OnlyFirstWordOverflows ==
  (inlineText # <<>> /\ inlineText.phase = "rendered"
     /\ inlineText.x <= RightEdge(inlineText)) =>
    \A k \in WordsAt(inlineText.out) :
      /\ inlineText.out[k].x <= RightEdge(inlineText)
      /\ ExtendsPast(inlineText, k) => EarlierOnLine(inlineText, k) = {}

\* C20 (amended): with the start x not beyond the right margin no word is
\* placed with its start x beyond the right margin, and a word that extends
\* past the right margin starts at the start column x: it is the first word
\* on its line, or every word placed before it on that line has width zero
\* (such as the empty last word of a segment that ends in a space).
C20_OverflowOnlyAtLineStart ==
  (inlineText # <<>> /\ inlineText.phase = "rendered"
     /\ inlineText.x <= RightEdge(inlineText)) =>
    \A k \in WordsAt(inlineText.out) :
      /\ inlineText.out[k].x <= RightEdge(inlineText)
      /\ ExtendsPast(inlineText, k) =>
           /\ inlineText.out[k].x = inlineText.x
           /\ \A j \in EarlierOnLine(inlineText, k) : WidthAt(inlineText, j) = 0

\* C20 witness: a rendered text that wrapped, with a word of positive width
\* before a word that extends past the right margin
C20_Witness ==
  /\ inlineText # <<>> /\ inlineText.phase = "rendered"
  /\ inlineText.x <= RightEdge(inlineText)
  /\ inlineText.currentY > inlineText.y
  /\ \E k \in WordsAt(inlineText.out), j \in WordsAt(inlineText.out) :
       /\ j < k
       /\ WidthAt(inlineText, j) > 0
       /\ ~ExtendsPast(inlineText, j)
       /\ ExtendsPast(inlineText, k)


\* ----------------------------------------------- claims on bullet shapes
TrianglesOf(out) == SelectSeq(out, LAMBDA p : p.op = "triangle")

\* the corners of a triangle call, as a set of points
Corners(p) == {<<p.x, p.y>>, <<p.x2, p.y2>>, <<p.x3, p.y3>>}

RECURSIVE CornersOf(_)
CornersOf(ts) == IF ts = <<>> THEN <<>> ELSE <<Corners(Head(ts))>> \o CornersOf(Tail(ts))

\* the point v turned about c by q quarter turns, from top towards right
RECURSIVE Turned(_, _, _)
Turned(v, c, q) ==
  IF q = 0
    THEN v
    ELSE Turned(<<c[1] - (v[2] - c[2]), c[2] + (v[1] - c[1])>>, c, q - 1)

TurnedSet(vs, c, q) == {Turned(v, c, q) : v \in vs}

\* the two triangles of the top petal; sz is a multiple of ten units, so
\* three tenths of it is exact
TopA(cx, cy, sz) ==
  {<<cx, cy - sz>>, <<cx - (3 * sz) \div 10, cy - (3 * sz) \div 10>>, <<cx, cy>>}
TopB(cx, cy, sz) ==
  {<<cx, cy - sz>>, <<cx + (3 * sz) \div 10, cy - (3 * sz) \div 10>>, <<cx, cy>>}

\* the eight triangles of the diamond as stated: the top pair, then the
\* pair turned by one, two and three quarter turns
DiamondAsStated(cx, cy, sz) ==
  [n \in 1..8 |->
     TurnedSet(IF n % 2 = 1 THEN TopA(cx, cy, sz) ELSE TopB(cx, cy, sz),
               <<cx, cy>>, (n - 1) \div 2)]

\* anchors and sizes the drawer is tried on at a cursor
DiamondSizes == {(9 * MM) \div 10, MM, 3 * MM}
DiamondAnchors(cursor, th) ==
  {<<21 * MM, 10 * MM>>} \cup
    (IF cursor # NaN THEN {<<th.margin + 6 * MM, cursor - MM>>} ELSE {})

MaxValue == 48
SignificandBits == 53
\* zero bits put under a dividend so that the quotient has guard bits
GuardBits == 60

Zero64 == [m |-> <<>>, e |-> 0]

DigitBits(d) == <<d % 2, (d \div 2) % 2, (d \div 4) % 2, (d \div 8) % 2>>

\* the bits, lowest first, of hexadecimal digits written highest first
RECURSIVE HexBits(_)
HexBits(h) == IF h = <<>> THEN <<>> ELSE HexBits(Tail(h)) \o DigitBits(Head(h))

\* without zero bits at the high end
Trim(bits) ==
  LET ones == {i \in 1..Len(bits) : bits[i] = 1}
  IN  IF ones = {} THEN <<>>
      ELSE SubSeq(bits, 1, CHOOSE i \in ones : \A k \in ones : k <= i)

Zeros(k) == [i \in 1..k |-> 0]

\* a long number is held in limbs of LimbBits bits, lowest limb first, so
\* that limb * n + carry stays within the integers of the checker
LimbBits == 20
Base == 2 ^ LimbBits

RECURSIVE LimbOf(_, _, _)
LimbOf(bits, lo, k) ==
  IF k = 0 THEN 0
  ELSE (IF lo <= Len(bits) THEN bits[lo] ELSE 0) + 2 * LimbOf(bits, lo + 1, k - 1)

Limbs(bits) ==
  [l \in 1..((Len(bits) + LimbBits - 1) \div LimbBits) |->
     LimbOf(bits, (l - 1) * LimbBits + 1, LimbBits)]

BitsOf(limbs) ==
  Trim([i \in 1..(Len(limbs) * LimbBits) |->
          (limbs[((i - 1) \div LimbBits) + 1] \div (2 ^ ((i - 1) % LimbBits))) % 2])

\* limbs * n for an integer n, by carry from the lowest limb
RECURSIVE MulCarry(_, _, _, _)
MulCarry(limbs, n, i, carry) ==
  IF i > Len(limbs)
    THEN <<carry>>
    ELSE <<(limbs[i] * n + carry) % Base>>
           \o MulCarry(limbs, n, i + 1, (limbs[i] * n + carry) \div Base)

\* limbs divided by an integer n, by long division from the highest limb i
\* down: the quotient q, lowest limb first, and whether a remainder was left
RECURSIVE DivRem(_, _, _, _, _)
DivRem(limbs, n, i, rem, q) ==
  IF i = 0
    THEN [q |-> q, inexact |-> rem # 0]
    ELSE DivRem(limbs, n, i - 1, (rem * Base + limbs[i]) % n,
                <<(rem * Base + limbs[i]) \div n>> \o q)

\* bits + 1
Inc(bits) ==
  LET zeros == {i \in 1..Len(bits) : bits[i] = 0}
      low == CHOOSE i \in zeros : \A k \in zeros : i <= k
  IN  IF zeros = {} THEN Zeros(Len(bits)) \o <<1>>
      ELSE [i \in 1..Len(bits) |-> IF i < low THEN 0 ELSE IF i = low THEN 1 ELSE bits[i]]

\* faulty variant of Round64: the bits beyond the significand are cut off
Round64_truncate(bits, e, sticky) ==
  LET b == Trim(bits)
      d == Len(b) - SignificandBits
  IN  IF b = <<>> THEN Zero64
      ELSE IF d <= 0 THEN [m |-> Zeros(0 - d) \o b, e |-> e + d]
      ELSE [m |-> SubSeq(b, d + 1, Len(b)), e |-> e + d]

\* the double nearest to bits * 2^e (ties to even); sticky says that the
\* exact value lies above bits * 2^e by less than one unit of the lowest bit
Round64(bits, e, sticky) ==
  LET b == Trim(bits)
      d == Len(b) - SignificandBits
      kept == SubSeq(b, d + 1, Len(b))
      below == sticky \/ \E i \in 1..(d - 1) : b[i] = 1
      up == b[d] = 1 /\ (below \/ kept[1] = 1)
      m == IF up THEN Inc(kept) ELSE kept
  IN  IF b = <<>> THEN Zero64
      ELSE IF d <= 0 THEN [m |-> Zeros(0 - d) \o b, e |-> e + d]
      ELSE IF Len(m) > SignificandBits
        THEN [m |-> SubSeq(m, 2, Len(m)), e |-> e + d + 1]
        ELSE [m |-> m, e |-> e + d]

\* the double a * (n * 2^j)
Times64(a, n, j) == Round64(BitsOf(MulCarry(Limbs(a.m), n, 1, 0)), a.e + j, FALSE)

\* the double a / n for a positive integer n
Over64(a, n) ==
  LET limbs == Limbs(Zeros(GuardBits) \o a.m)
      r == DivRem(limbs, n, Len(limbs), 0, <<>>)
  IN  Round64(BitsOf(r.q), a.e - GuardBits, r.inexact)

\* the literal 25.4: 0x1.9666666666666p+4
Literal_25_4 ==
  [m |-> Trim(HexBits(<<1, 9, 6, 6, 6, 6, 6, 6, 6, 6, 6, 6, 6, 6>>)), e |-> 4 - 52]

\* export const PT_TO_MM = 25.4 / 72
PT_TO_MM_64 == Over64(Literal_25_4, 72)

\* export const PX_TO_MM = 25.4 / 96
PX_TO_MM_64 == Over64(Literal_25_4, 96)

\* faulty variant of px64: pixels converted with the point factor
px64_asPoints(th, value) == Times64(PT_TO_MM_64, value.n, value.j)

\* px(theme, value): value * PX_TO_MM
px64(th, value) == Times64(PX_TO_MM_64, value.n, value.j)

\* pt(theme, value): value * PT_TO_MM
pt64(th, value) == Times64(PT_TO_MM_64, value.n, value.j)

\* lineHeight(theme, fontSize, lh): fontSize * lh * PT_TO_MM, the product
\* fontSize * lh being exact for these arguments
lineHeight64(th, fontSize, lh) ==
  Times64(PT_TO_MM_64, fontSize.n * lh.n, fontSize.j + lh.j)

\* the numbers the converters are applied to
Values == [n : 0..MaxValue, j : {0 - 1, 0, 1}]
Multipliers == {[n |-> 1, j |-> 0], [n |-> 3, j |-> 0 - 1], [n |-> 7, j |-> 0 - 2]}

InitUnits ==
  /\ conversion \in [phase : {"value"}, value : Values]
  /\ calls = <<>>
  /\ inlineText = <<>>
  /\ theme = ThemeModern
  /\ headerBarImage = FALSE
  /\ sectionBarImage = FALSE
  /\ y = theme.margin
  /\ pageIndex = 0
  /\ docFontSize = DefaultFontSize
  /\ docTextColor = <<0, 0, 0>>
  /\ docFillColor = <<0, 0, 0>>
  /\ emitted = <<>>
  /\ lastBlock = "none"
  /\ ctx = "done"
  /\ blocks = 0
  /\ pageStart = <<>>
  /\ listPage = 0

ConvertPx ==
  /\ conversion.phase = "value"
  /\ \E th \in Themes :
       conversion' = [phase |-> "px", value |-> conversion.value, theme |-> th.name,
                      result |-> px64(th, conversion.value)]
  /\ UNCHANGED <<renderVars, calls, inlineText>>

ConvertPt ==
  /\ conversion.phase = "value"
  /\ \E th \in Themes :
       conversion' = [phase |-> "pt", value |-> conversion.value, theme |-> th.name,
                      result |-> pt64(th, conversion.value)]
  /\ UNCHANGED <<renderVars, calls, inlineText>>

ConvertLineHeight ==
  /\ conversion.phase = "value"
  /\ \E th \in Themes, lh \in Multipliers :
       conversion' = [phase |-> "lineHeight", value |-> conversion.value, lh |-> lh,
                      theme |-> th.name,
                      result |-> lineHeight64(th, conversion.value, lh)]
  /\ UNCHANGED <<renderVars, calls, inlineText>>

NextUnits ==
  \/ ConvertPx
  \/ ConvertPt
  \/ ConvertLineHeight

SpecUnits == InitUnits /\ [][NextUnits]_vars


\* ------------------------------------------- claims on the unit converters
\* 2 * x for a dyadic argument and for a double: both exact
Twice(v) == [n |-> v.n, j |-> v.j + 1]
Twice64(a) == IF a = Zero64 THEN Zero64 ELSE [m |-> a.m, e |-> a.e + 1]

\* k * x for a dyadic argument and a small integer k
Scaled(v, k) == [n |-> k * v.n, j |-> v.j]

\* bits - 1, for bits that are not all zero
Dec(bits) ==
  LET ones == {i \in 1..Len(bits) : bits[i] = 1}
      low == CHOOSE i \in ones : \A k \in ones : i <= k
  IN  [i \in 1..Len(bits) |-> IF i < low THEN 1 ELSE IF i = low THEN 0 ELSE bits[i]]

\* the double next below a positive double
Below64(a) ==
  IF Len(Trim(Dec(a.m))) = SignificandBits
    THEN [m |-> Dec(a.m), e |-> a.e]
    ELSE [m |-> [i \in 1..SignificandBits |-> 1], e |-> a.e - 1]

\* the argument of the conversion in the exact arithmetic of the layout
\* model, for arguments that are whole numbers
Whole(v) == v.j >= 0
AsInteger(v) == v.n * (IF v.j = 1 THEN 2 ELSE 1)

\* f(2x) = 2 f(x) for px, pt and lineHeight, and lineHeight(f, m) = pt(f*m),
\* whatever the theme argument
LinearAndThemeFree(v) ==
  \A th \in Themes :
    /\ px64(th, v) = px64(ThemeModern, v)
    /\ pt64(th, v) = pt64(ThemeModern, v)
    /\ px64(th, Twice(v)) = Twice64(px64(th, v))
    /\ pt64(th, Twice(v)) = Twice64(pt64(th, v))
    /\ \A lh \in Multipliers :
         /\ lineHeight64(th, v, lh) = lineHeight64(ThemeModern, v, lh)
         /\ lineHeight64(th, Twice(v), lh) = Twice64(lineHeight64(th, v, lh))
         /\ lineHeight64(th, v, lh) = pt64(th, [n |-> v.n * lh.n, j |-> v.j + lh.j])

\* the result the state holds is the one the converter gives for any theme
ResultAsComputed ==
  \A th \in Themes :
    /\ conversion.phase = "px" => conversion.result = px64(th, conversion.value)
    /\ conversion.phase = "pt" => conversion.result = pt64(th, conversion.value)
    /\ conversion.phase = "lineHeight" =>
         conversion.result = lineHeight64(th, conversion.value, conversion.lh)

\* C22 as stated: px(v) = v*25.4/96, pt(s) = s*25.4/72 and
\* lineHeight(f, m) = f*m*25.4/72 are linear and consistent: f(2x) = 2 f(x)
\* for each, lineHeight(f, m) = pt(f*m), px(4k) = pt(3k) for every
\* non-negative k, and the theme argument does not affect the result.
C22_Orig_LinearAndConsistent ==
  conversion # <<>> =>
    /\ ResultAsComputed
    /\ LinearAndThemeFree(conversion.value)
    /\ px64(theme, Scaled(conversion.value, 4)) = pt64(theme, Scaled(conversion.value, 3))

\* C22 (amended): the conversions are linear under doubling, exactly, in
\* the binary64 arithmetic the code runs in; lineHeight(f, m) = pt(f*m)
\* exactly; and the theme argument does not affect the result.  px(4k) and
\* pt(3k) are equal as real numbers (4 * 25.4/96 = 3 * 25.4/72), but as
\* computed pt(3k) is either px(4k) or the double next below it: the two
\* factors 25.4/96 and 25.4/72 are rounded separately.
C22_LinearConsistentUpToRounding ==
  conversion # <<>> =>
    /\ ResultAsComputed
    /\ LinearAndThemeFree(conversion.value)
    /\ Whole(conversion.value) =>
         px(theme, 4 * AsInteger(conversion.value))
           = pt(theme, 10 * 3 * AsInteger(conversion.value))
    /\ PX_TO_MM * 96 = PT_TO_MM * 10 * 72
    /\ LET a == px64(theme, Scaled(conversion.value, 4))
           b == pt64(theme, Scaled(conversion.value, 3))
       IN  b = a \/ (a # Zero64 /\ b = Below64(a))

\* C22 witness: px(4) has been computed, and pt(3) is the double next
\* below it
C22_Witness ==
  /\ conversion # <<>> /\ conversion.phase = "px"
  /\ conversion.value = [n |-> 4, j |-> 0]
  /\ conversion.result # pt64(theme, [n |-> 3, j |-> 0])
  /\ pt64(theme, [n |-> 3, j |-> 0]) = Below64(conversion.result)


\* ------------------------------------------ claims on the inline wrapping
\* the word placed last before call k, 0 if call k places the first word
PrevWord(r, k) ==
  LET before == {j \in WordsAt(r.out) : j < k}
  IN  IF before = {} THEN 0 ELSE CHOOSE j \in before : \A i \in before : i <= j

\* the pen before call k places its word: where the previous word ended
PenX(r, k) ==
  IF PrevWord(r, k) = 0 THEN r.x
  ELSE r.out[PrevWord(r, k)].x + WidthAt(r, PrevWord(r, k))

PenY(r, k) == IF PrevWord(r, k) = 0 THEN r.y ELSE r.out[PrevWord(r, k)].y

\* the line the pen is on holds content: a word of positive width
HasContent(r, k) ==
  \E j \in WordsAt(r.out) : j < k /\ r.out[j].y = PenY(r, k) /\ WidthAt(r, j) > 0

\* the line was broken before the word of call k
Broke(r, k) == r.out[k].y # PenY(r, k)

LineAdvance(r) == lineHeight(r.theme, r.theme.fonts.li, r.theme.lineHeights.li)

\* C23: renderInlineBold breaks the line before a word exactly when placing
\* the word would exceed the right margin and the current line already holds
\* content; a break advances y by lineHeight(fonts.li, lineHeights.li) and
\* puts the word at the start column, a word without a break goes where the
\* previous one ended; the first word of the text never causes a break, and
\* the returned y is the start y plus the number of breaks times the advance.
C23_BreakRule ==
  (inlineText # <<>> /\ inlineText.phase = "rendered") =>
    LET r == inlineText
        breaks == {k \in WordsAt(r.out) : Broke(r, k)}
    IN  /\ \A k \in WordsAt(r.out) :
             /\ Broke(r, k) <=>
                  (PenX(r, k) + WidthAt(r, k) > RightEdge(r) /\ HasContent(r, k))
             /\ Broke(r, k) =>
                  (r.out[k].y = PenY(r, k) + LineAdvance(r) /\ r.out[k].x = r.x)
             /\ ~Broke(r, k) => r.out[k].x = PenX(r, k)
             /\ PrevWord(r, k) = 0 => ~Broke(r, k)
        /\ r.currentY = r.y + Cardinality(breaks) * LineAdvance(r)

\* C23 witness: a text rendered with two breaks, a word placed after another
\* on one line, and a first word that exceeds the right margin unbroken
C23_Witness ==
  /\ inlineText # <<>> /\ inlineText.phase = "rendered"
  /\ inlineText.currentY = inlineText.y + 2 * LineAdvance(inlineText)
  /\ \E k \in WordsAt(inlineText.out) :
       PrevWord(inlineText, k) # 0 /\ ~Broke(inlineText, k) /\ WidthAt(inlineText, k) > 0
  /\ \E k \in WordsAt(inlineText.out) :
       PrevWord(inlineText, k) = 0 /\ ExtendsPast(inlineText, k)


\* C24 as stated: renderInlineBold wraps against the maximum line width it
\* is given: for every start x and maxWidth, a word that is not the first on
\* its line never ends beyond x + maxWidth.
C24_Orig_WrapsAgainstMaxWidth ==
  (inlineText # <<>> /\ inlineText.phase = "rendered") =>
    \A k \in WordsAt(inlineText.out) :
      EarlierOnLine(inlineText, k) # {} =>
        inlineText.out[k].x + WidthAt(inlineText, k) <= inlineText.x + inlineText.maxWidth


\* ------------------------------------------- claims on the bold markers

\* what the claim expects of a segment: an opening marker if it is
\* emphasized, its words, a closing marker if it is emphasized
Marker(kind) == [kind |-> kind, bold |-> TRUE, text |-> "**"]

WordPattern(words, bold) ==
  [i \in 1..Len(words) |->
     [kind |-> "word", bold |-> bold,
      text |-> IF i < Len(words) THEN Append(words[i], " ") ELSE words[i]]]

SegmentPattern(seg) ==
  (IF seg.bold THEN <<Marker("open")>> ELSE <<>>)
    \o WordPattern(split(seg.text), seg.bold)
    \o (IF seg.bold THEN <<Marker("close")>> ELSE <<>>)

RECURSIVE Pattern(_)
Pattern(segments) ==
  IF segments = <<>> THEN <<>>
  ELSE SegmentPattern(Head(segments)) \o Pattern(Tail(segments))

\* the text call t is a marker in background colour
IsMarker(r, t) == t.role = "ghost" /\ t.text = "**" /\ t.color = r.theme.colors.bg

\* the text call t is a word in the text colour
IsWord(r, t, w) == t.role = "word" /\ t.text = w /\ t.color = r.theme.colors.text

\* C25: in renderInlineBold every emphasized segment yields exactly one
\* opening '**' marker, in background colour, at the position and on the
\* line of its first word and before that word, and exactly one closing '**'
\* marker, in background colour, at the x immediately after its last word
\* on that word's line; plain segments yield no markers, and every word is
\* placed in the theme's text colour.
C25_BoldMarkers ==
  (inlineText # <<>> /\ inlineText.phase = "rendered") =>
    LET r == inlineText
        t == TextCalls(r.out)
        e == Pattern(parseInlineBold(r.text))
    IN  /\ Len(t) = Len(e)
        /\ \A p \in 1..Len(e) :
             /\ e[p].kind = "word" => IsWord(r, t[p], e[p].text)
             /\ e[p].kind = "open" =>
                  /\ IsMarker(r, t[p])
                  /\ e[p + 1].kind = "word"
                  /\ t[p].x = t[p + 1].x /\ t[p].y = t[p + 1].y
             /\ e[p].kind = "close" =>
                  /\ IsMarker(r, t[p])
                  /\ e[p - 1].kind = "word"
                  /\ t[p].y = t[p - 1].y
                  /\ t[p].x = t[p - 1].x
                              + getTextWidthIn(r.charWidth, "bold", e[p - 1].text)

\* C25 witness: an emphasized segment of two words after a plain segment,
\* broken between its words, so that its markers are on different lines
C25_Witness ==
  /\ inlineText # <<>> /\ inlineText.phase = "rendered"
  /\ LET t == TextCalls(inlineText.out)
         segs == parseInlineBold(inlineText.text)
     IN  /\ Len(segs) = 2 /\ ~segs[1].bold /\ segs[2].bold
         /\ Len(split(segs[2].text)) = 2
         /\ t[Len(t)].role = "ghost" /\ t[Len(t) - 3].role = "ghost"
         /\ t[Len(t)].y > t[Len(t) - 3].y
         /\ t[Len(t)].x > inlineText.x


\* --------------------------------------------- claims on bullet dispatch
GlyphsOf(out) == SelectSeq(out, LAMBDA p : p.op = "text" /\ p.role = "glyph")
BulletTextsOf(out) == SelectSeq(out, LAMBDA p : p.op = "text" /\ p.role = "bullet")

RECURSIVE Lexemes(_)
Lexemes(t) ==
  IF t = <<>>
    THEN <<>>
    ELSE IF Len(t) >= 2 /\ t[1] = "*" /\ t[2] = "*"
      THEN <<"D">> \o Lexemes(SubSeq(t, 3, Len(t)))
      ELSE <<t[1]>> \o Lexemes(Tail(t))

\* where the j-th '**' stands among the lexemes; 0 before the first and one
\* past the end after the last
DelimAt(lex, j) ==
  LET ds == {k \in 1..Len(lex) : lex[k] = "D"}
  IN  IF j = 0 THEN 0
      ELSE IF j > Cardinality(ds) THEN Len(lex) + 1
      ELSE CHOOSE d \in ds : Cardinality({e \in ds : e < d}) = j - 1

\* the text between the j-th '**' and the next, flagged by the parity of j
PieceAfter(lex, j) ==
  [text |-> SubSeq(lex, DelimAt(lex, j) + 1, DelimAt(lex, j + 1) - 1), bold |-> j % 2 = 1]

\* the pieces of a text that are not empty, in order
Pieces(t) ==
  LET lex == Lexemes(t)
      n == Cardinality({k \in 1..Len(lex) : lex[k] = "D"})
  IN  SelectSeq([j \in 1..(n + 1) |-> PieceAfter(lex, j - 1)], LAMBDA p : p.text # <<>>)

\* C27: in parseInlineBold each segment's bold flag is the parity of the
\* number of '**' delimiters scanned before it (odd = emphasized); with an
\* odd total number of delimiters the trailing text is still returned,
\* flagged emphasized; no returned segment has empty text, so empty input
\* and input made only of delimiters return an empty sequence.
C27_FlagParity ==
  (inlineText # <<>> /\ inlineText.phase = "parsed") =>
    LET t == inlineText.text
        lex == Lexemes(t)
        segs == inlineText.segments
        n == DelimCount(t)
    IN  /\ segs = Pieces(t)
        /\ \A k \in 1..Len(segs) : segs[k].text # <<>>
        /\ (n % 2 = 1 /\ lex[Len(lex)] # "D") =>
             /\ segs[Len(segs)].bold
             /\ segs[Len(segs)].text = SubSeq(lex, DelimAt(lex, n) + 1, Len(lex))
        /\ (\A k \in 1..Len(lex) : lex[k] = "D") => segs = <<>>

\* C27 witness: a parsed text with one delimiter, plain text before it and
\* trailing text returned emphasized
C27_Witness ==
  /\ inlineText # <<>> /\ inlineText.phase = "parsed"
  /\ DelimCount(inlineText.text) = 1
  /\ Len(inlineText.segments) = 2
  /\ ~inlineText.segments[1].bold
  /\ inlineText.segments[2].bold


\* ------------------------------------------------- claims on the cursor
\* the theme defines every key the composer reads, with non-negative values
DefinesEveryKey(th) ==
  /\ \A k \in SpacingKeysRead :
       k \in DOMAIN th.spacing /\ th.spacing[k] # NaN /\ th.spacing[k] >= 0
  /\ \A k \in FontKeysRead : k \in DOMAIN th.fonts /\ th.fonts[k] >= 0
  /\ \A k \in LineHeightKeysRead : k \in DOMAIN th.lineHeights /\ th.lineHeights[k] >= 0
  /\ \A k \in ColorKeysRead : k \in DOMAIN th.colors /\ th.colors[k] # Undef
  /\ PrefixKeysRead \subseteq DOMAIN th.prefixes
  /\ th.images.headerBarHeight >= 0

\* C28: for a theme that defines every referenced key with non-negative
\* values, after any sequence of sections the cursor y is a defined number
\* with y >= margin, and y never decreases except when a page break resets
\* it to margin.
C28_CursorDefinedAndMonotone ==
  /\ [](DefinesEveryKey(theme) => (y # NaN /\ y >= theme.margin))
  /\ [][DefinesEveryKey(theme) => (y' >= y \/ pageIndex' > pageIndex)]_vars

\* C28 witness: a theme with every key defined, on its second page after a
\* role's bullets, the cursor below the top margin
C28_Witness ==
  /\ DefinesEveryKey(theme)
  /\ pageIndex = 1
  /\ lastBlock = "endRole"
  /\ y # NaN /\ y > theme.margin


\* the checkPageOverflow calls of a block, each with the cursor it saw and
\* what it returned
ChecksOf(out) == SelectSeq(out, LAMBDA p : p.op = "checkPageOverflow")

\* the cursor when the check returns
AfterCheck(c) == IF c.ret THEN theme.margin ELSE c.y

\* C29 as stated: immediately after checkPageOverflow(r) returns,
\* y + r <= pageHeight - margin whenever r <= pageHeight - 2*margin; so the
\* first line of every bullet (of a section or of a role) is placed at a y
\* with y + 15 <= pageHeight - margin.
C29_Orig_RoomAfterCheck ==
  /\ \A k \in 1..Len(ChecksOf(emitted)) :
       LET c == ChecksOf(emitted)[k]
       IN  c.required <= pageHeight - 2 * theme.margin =>
             (AfterCheck(c) # NaN /\ AfterCheck(c) + c.required <= pageHeight - theme.margin)
  /\ lastBlock = "bullet" =>
       LET b == BulletTextsOf(emitted)[1]
       IN  b.y # NaN /\ b.y + 15 * MM <= pageHeight - theme.margin


\* ---------------------------------------- claims on the section dispatch
SectionTypes == {"header", "summary", "section", "experience"}

\* the sections of a document the sections loop has a branch for
Known(sections) == SelectSeq(sections, LAMBDA x : x.type \in SectionTypes)

\* the render of what invocation c was given, its sections of other types
\* taken out of the document
WithoutUnknown(c) ==
  renderSections(applyPageBackground(FreshDoc(c.theme), c.theme), c.theme,
                 c.headerBarImage, c.sectionBarImage, Known(c.formData.sections))

\* C30: a section whose type is none of 'header', 'summary', 'section',
\* 'experience' is skipped without effect: it emits no primitive, adds no
\* page and leaves the cursor y unchanged, and the sections after it are
\* rendered as if it were absent: the finished render has the stream and the
\* final cursor of the document without such sections.
C30_UnknownSectionSkipped ==
  \A i \in Done :
    /\ calls[i].doc = Calls(WithoutUnknown(calls[i]).out)
    /\ calls[i].y = WithoutUnknown(calls[i]).y

\* C30 witness: a finished render of a document with two sections of an
\* unknown type, next to a finished render of the same document without
\* them, with the same stream
C30_Witness ==
  \E i \in Done, j \in Done :
    /\ Len(Known(calls[i].formData.sections)) = Len(calls[i].formData.sections) - 2
    /\ calls[j].formData.sections = Known(calls[i].formData.sections)
    /\ calls[i].theme = calls[j].theme
    /\ calls[i].doc = calls[j].doc
    /\ Len(calls[i].doc) > 50

=============================================================================
